---- MODULE Spec2Model ----
(***************************************************************************)
(* A model of the activity/metrics store of openhands.monitoring           *)
(* (ActivityMonitor), its subscriber notification and its background       *)
(* sampling loop.                                                          *)
(*                                                                         *)
(* Activity objects live on the heap (objs) and are referenced by id from  *)
(* the live set (activities) and from the history list, exactly as the     *)
(* Python code keeps one Activity object and moves the reference.          *)
(* Producer threads execute start_activity / end_activity /                *)
(* add_child_activity step by step: the unlocked prologue, the section     *)
(* under self._lock, and one step per subscriber callback.                 *)
(*                                                                         *)
(* The streaming server (MonitoringServer, ConnectionManager) is modelled  *)
(* at the suspension points of asyncio: a broadcast task runs from one     *)
(* await to the next, and a websocket endpoint from accept to disconnect.  *)
(* update_agent_metrics is modelled in two steps inside the lock, so that  *)
(* a reader of the shared AgentMetrics objects can run in between.         *)
(***************************************************************************)
EXTENDS Integers, Sequences, FiniteSets, TLC

\* ---------------------------------------------------------------- bounds
MaxActs == 3        \* activities created by the concurrent producers
SeqActs == 1        \* activities created by the single producer
BusActs == 2        \* activities created in front of the subscribers
LoopActs == 1       \* activities created beside the sampling loop
MaxCap == 1         \* config.max_history ranges over 0..MaxCap
MaxSubs == 2        \* registered callbacks per topic
MaxSamples == 2     \* samples the sampling loop may take
MaxTasks == 2       \* sampling tasks start_monitoring may create
MaxChildren == 1    \* children add_child_activity may record per parent
RaceActs == 1       \* activities created by the producers racing on one id
ServerActs == 1     \* activities created in front of the streaming server
MaxConns == 2       \* websocket connections the server accepts
AvgCalls == 3       \* update_agent_metrics calls of the single caller
AgentCalls == 3     \* update_agent_metrics calls of the concurrent callers
ChildActs == 2      \* activities created by the callers of add_child_activity
ReaderActs == 2     \* activities created in front of the snapshot accessors
ReaderCalls == 2    \* update_agent_metrics calls in front of the accessors
LockActs == 1       \* activities created by the producers beside the loop
FrozenActs == 2     \* activities created by the caller of every operation
FrozenCalls == 1    \* update_agent_metrics calls of that caller
SnapActs == 2       \* activities created beside a snapshot
SnapCalls == 2      \* calls of _send_initial_data
HookUses == 2       \* uses of a MonitoringHooks context manager
MaxSessions == 2    \* visual sessions created
VisualCalls == 3    \* detail, recording, logs and stop requests
MaxLimit == 2       \* get_recent_activities is called with limit in 0..MaxLimit

\* ------------------------------------------------------- program values
EmptyId == 0        \* the "" returned by a disabled start_activity
NoDuration == -1    \* Activity.duration = None
NoSample == -1      \* no 'response_time' key in metrics_update
UnknownId == MaxActs + SeqActs + BusActs + LoopActs   \* an id start_activity never handed out

Conns == 1..MaxConns
Entities == {"agent"}       \* agent_name
Tools == {"bash"}           \* metrics_update['tool_used']
Threads == {"t1", "t2"}
MainThread == "t1"
ActivityStatus == {"started", "completed", "failed", "cancelled"}
SubscriberKinds == {"ok", "raise"}
NoMeta == {}
StartMetas == {NoMeta, {<<"k", 1>>}}        \* metadata given to start_activity
EndMetas == {NoMeta, {<<"k", 2>>}}          \* metadata given to end_activity
Durations == {1, 2}         \* elapsed times end_activity may measure

\* The callbacks registered by subscribe_to_activities / subscribe_to_metrics
\* (each call appends one): every list of at most MaxSubs callbacks, each one
\* either returning or raising on every invocation.
Registries == UNION {[1..n -> SubscriberKinds] : n \in 0..MaxSubs}

VARIABLES
    enabled,                    \* config.enabled
    max_history,                \* config.max_history
    enable_resource_monitoring, \* config.enable_resource_monitoring
    activities,                 \* keys of self.activities
    objs,                       \* the Activity objects, by id
    activities_history,         \* self.activities_history (ids of the objects)
    stats,                      \* self.stats
    subscribers,                \* self.subscribers (kind of each callback)
    metrics_subscribers,        \* self.metrics_subscribers
    system_metrics,             \* self.system_metrics (sample numbers)
    is_monitoring,              \* self._is_monitoring
    tasks,                      \* the sampling tasks created so far; the last
                                \* one is self._monitoring_task
    nextId,                     \* the next fresh uuid
    nextSample,                 \* the next sample number
    th,                         \* each producer thread's position and locals
    ret,                        \* how the most recent call ended
    callLog,                    \* activity callbacks invoked, in order
    metricsLog,                 \* metrics callbacks invoked, in order
    ended,                      \* ids moved to history, in the order of the moves
    published,                  \* events handed to _notify_subscribers while
                                \* somebody was subscribed, in order
    active_connections,         \* ConnectionManager.active_connections
    conn,                       \* each websocket: its endpoint's position and
                                \* whether the client is still there
    sent,                       \* the messages written to each websocket
    bcasts,                     \* the broadcast tasks, in creation order
    joined,                     \* per websocket, the number of events published
                                \* before it entered active_connections
    enable_agent_metrics,       \* config.enable_agent_metrics
    agent_metrics,              \* self.agent_metrics: the AgentMetrics objects
    lock,                       \* the thread inside "with self._lock" of
                                \* update_agent_metrics, or "free"
    ath,                        \* each thread's update_agent_metrics call
    applied,                    \* the calls applied in full, in order
    commits,                    \* the values agent_metrics had between calls
    views,                      \* the entities whose objects a caller of
                                \* get_agent_metrics holds
    observed,                   \* what that caller last read from an object
    held,                       \* the ids of the Activity objects a caller of
                                \* get_active_activities holds
    recent,                     \* the last call of get_recent_activities: its
                                \* limit and the list it returned
    hook,                       \* the use of a MonitoringHooks context manager
                                \* under way or just finished
    sessions,                   \* VisualSessionManager.sessions: the status of
                                \* each session, by id
    starters,                   \* the background tasks _start_visual_session
    nextSession,                \* the next fresh session uuid
    vret,                       \* the last request to the visual sessions API
                                \* and its answer
    snap                        \* the call of _send_initial_data under way or
                                \* just finished: what it has read so far

monitorVars == <<enabled, max_history, enable_resource_monitoring, activities,
                 objs, activities_history, stats, subscribers,
                 metrics_subscribers, system_metrics, is_monitoring, tasks,
                 nextId, nextSample, th, ret, callLog, metricsLog, ended,
                 published>>
serverVars == <<active_connections, conn, sent, bcasts, joined>>
agentVars == <<enable_agent_metrics, agent_metrics, lock, ath, applied, commits,
               views, observed>>
snapVars == <<snap>>
readerVars == <<held, recent, snapVars>>
hookVars == <<hook>>
visualVars == <<sessions, starters, nextSession, vret>>
laterVars == <<hookVars, visualVars>>
restVars == <<serverVars, agentVars, readerVars, laterVars>>
vars == <<monitorVars, restVars>>

configVars == <<max_history, enable_resource_monitoring>>
storeVars == <<activities, objs, activities_history, stats, nextId, ended>>
samplerVars == <<system_metrics, is_monitoring, tasks, nextSample, metricsLog>>

\* ------------------------------------------------------------- helpers
Range(s) == {s[i] : i \in 1..Len(s)}

\* Python's s[-n:] for n >= 0: -0 is 0, so s[-0:] is the whole list.
NegSlice(s, n) ==
    IF n = 0 \/ n >= Len(s) THEN s ELSE SubSeq(s, Len(s) - n + 1, Len(s))

\* "if len(xs) > cap: xs = xs[-cap:]"
Trim(s, cap) == IF Len(s) > cap THEN NegSlice(s, cap) ELSE s

\* dict.update
MetaUpdate(old, new) == new \cup {p \in old : \A q \in new : q[1] # p[1]}

Idle == [pc |-> "idle", id |-> EmptyId, status |-> "started", md |-> NoMeta, i |-> 0]

NewActivity(md) ==
    [status |-> "started", duration |-> NoDuration, metadata |-> md, children |-> <<>>]

InitStats == [started |-> 0, completed |-> 0, failed |-> 0, total_duration |-> 0]

\* A call returned id (start_activity's result; EmptyId for "" and for the
\* calls that return None), or ended by raising.
Returned(id) == [out |-> "ok", id |-> id]
RaisedOut == [out |-> "raised", id |-> EmptyId]

\* A thread outside update_agent_metrics.
\* metrics_update as the five keys the code looks at: the two flags, the
\* response time (NoSample without the key), the tool ("" without the key)
\* and the tokens (0 without the key, which has the effect of the key with 0).
EmptyUpdate == [completed |-> FALSE, failed |-> FALSE, rt |-> NoSample,
                tool |-> "", tokens |-> 0]
NoCall == [pc |-> "idle", name |-> "", u |-> EmptyUpdate]

\* No context manager of MonitoringHooks has been entered yet.
NoHook == [pc |-> "out", kind |-> "tool", id |-> EmptyId, starts |-> 0, ends |-> 0,
           status |-> "started", outcome |-> "none", raised |-> "none", uses |-> 0]

\* No request has been made to the visual sessions API yet.
NoRequest == [n |-> 0, op |-> "none", id |-> EmptyId, code |-> 200]

\* No snapshot has been taken.
NoSnapshot ==
    [pc |-> "idle", n |-> 0, known |-> {}, activities |-> <<>>,
     active_activities |-> {},
     statistics |-> [activities_started |-> 0, activities_completed |-> 0,
                     activities_failed |-> 0, total_duration |-> 0,
                     active_activities |-> 0, total_activities |-> 0]]

\* get_recent_activities has not been called yet.
NoneReturned == [limit |-> NoSample, result |-> <<>>]

\* ------------------------------------------------------------- Init
Init ==
    /\ enabled \in BOOLEAN
    /\ max_history \in 0..MaxCap
    /\ enable_resource_monitoring \in BOOLEAN
    /\ activities = {}
    /\ objs = <<>>
    /\ activities_history = <<>>
    /\ stats = InitStats
    /\ subscribers \in Registries
    /\ metrics_subscribers \in Registries
    /\ system_metrics = <<>>
    /\ is_monitoring = FALSE
    /\ tasks = <<>>
    /\ nextId = 1
    /\ nextSample = 1
    /\ th = [t \in Threads |-> Idle]
    /\ ret = Returned(EmptyId)
    /\ callLog = <<>>
    /\ metricsLog = <<>>
    /\ ended = <<>>
    /\ published = <<>>
    /\ active_connections = {}
    /\ conn = [c \in Conns |-> [pc |-> "none", alive |-> TRUE]]
    /\ sent = [c \in Conns |-> <<>>]
    /\ bcasts = <<>>
    /\ joined = [c \in Conns |-> 0]
    /\ enable_agent_metrics \in BOOLEAN
    /\ agent_metrics = <<>>
    /\ lock = "free"
    /\ ath = [t \in Threads |-> NoCall]
    /\ applied = <<>>
    /\ commits = {<<>>}
    /\ views = {}
    /\ observed = {}
    /\ held = {}
    /\ recent = NoneReturned
    /\ hook = NoHook
    /\ sessions = <<>>
    /\ starters = <<>>
    /\ nextSession = 1
    /\ vret = NoRequest
    /\ snap = NoSnapshot

\* ------------------------------------------------- the subscriber registry
\* (mutant) no try/except around the callback: a raise leaves the loop
NotifyUnguarded(kind) == kind # "raise"

\* "try: subscriber(x) / except Exception: pass": the loop goes on whatever
\* the callback did.
NotifyContinues(kind) == TRUE

\* One iteration of the loop of _notify_subscribers, by thread t.  The
\* callback receives the Activity object itself and sees its current fields.
NotifyStep(t) ==
    LET c == th[t]
        op == IF c.pc = "start_notify" THEN "start" ELSE "end"
        kind == subscribers[c.i]
    IN
    /\ c.pc \in {"start_notify", "end_notify"}
    /\ callLog' = Append(callLog, <<c.i, c.id, op, objs[c.id].status>>)
    /\ IF kind = "raise" /\ ~NotifyContinues(kind)
       THEN /\ th' = [th EXCEPT ![t] = Idle]
            /\ ret' = RaisedOut
       ELSE IF c.i < Len(subscribers)
       THEN /\ th' = [th EXCEPT ![t].i = c.i + 1]
            /\ UNCHANGED ret
       ELSE /\ th' = [th EXCEPT ![t] = Idle]
            /\ ret' = Returned(IF op = "start" THEN c.id ELSE EmptyId)
    /\ UNCHANGED <<enabled, configVars, storeVars, samplerVars,
                   subscribers, metrics_subscribers, published>>

\* (mutant) _notify_subscribers is called inside "with self._lock": the
\* callback runs in the locked section.
NotifyUnderLock(t, op, id) ==
    /\ th' = [th EXCEPT ![t] = Idle]
    /\ ret' = Returned(IF op = "start" THEN id ELSE EmptyId)
    /\ published' = IF Len(subscribers) = 0 THEN published
                                            ELSE Append(published, <<id, op>>)
    /\ callLog' = IF Len(subscribers) = 0 THEN callLog
                  ELSE Append(callLog, <<1, id, op, IF op = "start" THEN "started"
                                                    ELSE th[t].status>>)

\* Leaving the locked section and entering _notify_subscribers: with no
\* subscriber the call returns at once.  No callback has been invoked yet.
AfterLock(t, op, id) ==
    /\ IF Len(subscribers) = 0
       THEN /\ th' = [th EXCEPT ![t] = Idle]
            /\ ret' = Returned(IF op = "start" THEN id ELSE EmptyId)
            /\ UNCHANGED published
       ELSE /\ th' = [th EXCEPT ![t] = [Idle EXCEPT !.pc = op \o "_notify",
                                                     !.id = id, !.i = 1]]
            /\ published' = Append(published, <<id, op>>)
            /\ UNCHANGED ret
    /\ UNCHANGED callLog

\* ------------------------------------------------------- start_activity
\* (mutant) the enabled check is missing
StartDisabledIgnored == FALSE

\* "if not self.config.enabled: return ''"
StartDisabled == ~enabled

\* The prologue: the enabled check, uuid4() and the Activity constructor.
StartCall(t, md, limit) ==
    /\ th[t].pc = "idle"
    /\ IF StartDisabled
       THEN /\ ret' = Returned(EmptyId)
            /\ UNCHANGED <<th, objs, nextId>>
       ELSE /\ nextId <= limit
            /\ objs' = objs @@ (nextId :> NewActivity(md))
            /\ nextId' = nextId + 1
            /\ th' = [th EXCEPT ![t] = [Idle EXCEPT !.pc = "start_lock", !.id = nextId]]
            /\ UNCHANGED ret
    /\ UNCHANGED <<enabled, configVars, activities, activities_history, stats,
                   ended, published, samplerVars, subscribers,
                   metrics_subscribers, callLog>>
    /\ UNCHANGED restVars

\* (mutant) an increment of the counter is lost
StatsAfterStartOnce == [stats EXCEPT !.started = IF @ = 0 THEN 1 ELSE @]

\* "self.stats['activities_started'] += 1"
StatsAfterStart == [stats EXCEPT !.started = @ + 1]

\* "with self._lock: self.activities[id] = activity; started += 1"
StartLock(t) ==
    LET id == th[t].id IN
    /\ th[t].pc = "start_lock"
    /\ activities' = activities \cup {id}
    /\ stats' = StatsAfterStart
    /\ AfterLock(t, "start", id)
    /\ UNCHANGED <<enabled, configVars, objs, activities_history, nextId,
                   ended, samplerVars, subscribers, metrics_subscribers>>
    /\ UNCHANGED restVars

\* --------------------------------------------------------- end_activity
\* "if not self.config.enabled or not activity_id: return"
EndEarlyReturn(id) == ~enabled \/ id = EmptyId

\* (mutant) the id is looked up among all activities ever created
InLiveSetOrEnded(id) == id \in DOMAIN objs

\* "if activity_id not in self.activities: return"
InLiveSet(id) == id \in activities

\* (mutant) the reference stays in the live set
LiveWithoutForgotten(id) == activities

\* "del self.activities[activity_id]"
LiveWithout(id) == activities \ {id}

\* (mutant) the slice keeps the oldest entries, history[:max_history]
HistoryTrimKeepsOldest(h) ==
    IF Len(h) > max_history THEN SubSeq(h, 1, max_history) ELSE h

\* "if len(history) > max_history: history = history[-max_history:]"
HistoryTrim(h) == Trim(h, max_history)

\* (mutant) every end that is not a completion counts as a failure
StatsCountingCancelled(status, d) ==
    IF status = "completed"
    THEN [stats EXCEPT !.completed = @ + 1, !.total_duration = @ + d]
    ELSE [stats EXCEPT !.failed = @ + 1]

\* the counters after an end with this status and duration
StatsAfterEnd(status, d) ==
    IF status = "completed"
    THEN [stats EXCEPT !.completed = @ + 1, !.total_duration = @ + d]
    ELSE IF status = "failed"
    THEN [stats EXCEPT !.failed = @ + 1]
    ELSE stats

\* The ids a caller can hold: those start_activity has put into the live set
\* (returned, or read from get_active_activities), "" and a foreign id.
Inserted == activities \cup Range(ended)
EndArgs == {EmptyId, UnknownId} \cup Inserted

EndCall(t, id, status, md) ==
    /\ th[t].pc = "idle"
    /\ IF EndEarlyReturn(id)
       THEN /\ ret' = Returned(EmptyId)
            /\ UNCHANGED th
       ELSE /\ th' = [th EXCEPT ![t] = [pc |-> "end_lock", id |-> id,
                                        status |-> status, md |-> md, i |-> 0]]
            /\ UNCHANGED ret
    /\ UNCHANGED <<enabled, configVars, storeVars, samplerVars, subscribers,
                   metrics_subscribers, callLog,
                   published>>
    /\ UNCHANGED restVars

\* What end_activity does to an activity it has found in the live set.
EndEffect(id, status, md, d) ==
    LET a == objs[id] IN
    /\ objs' = [objs EXCEPT ![id] =
          [a EXCEPT !.status = status,
                    !.duration = d,
                    !.metadata = IF md # NoMeta
                                 THEN MetaUpdate(a.metadata, md)
                                 ELSE a.metadata]]
    /\ activities' = LiveWithout(id)
    /\ stats' = StatsAfterEnd(status, d)
    /\ activities_history' = HistoryTrim(Append(activities_history, id))
    /\ ended' = Append(ended, id)

\* The section of end_activity under self._lock.
EndLock(t, d) ==
    LET c == th[t] IN
    /\ c.pc = "end_lock"
    /\ IF ~InLiveSet(c.id)
       THEN /\ th' = [th EXCEPT ![t] = Idle]
            /\ ret' = Returned(EmptyId)
            /\ UNCHANGED <<activities, objs, activities_history, stats, ended,
                           published, callLog>>
       ELSE /\ EndEffect(c.id, c.status, c.md, d)
            /\ AfterLock(t, "end", c.id)
    /\ UNCHANGED <<enabled, configVars, nextId, samplerVars, subscribers,
                   metrics_subscribers>>
    /\ UNCHANGED restVars

\* --------------------------------------------------- add_child_activity
AddChildCall(t, parent, child) ==
    /\ th[t].pc = "idle"
    /\ IF ~enabled
       THEN /\ ret' = Returned(EmptyId)
            /\ UNCHANGED th
       ELSE /\ th' = [th EXCEPT ![t] = [Idle EXCEPT !.pc = "child_lock",
                                                    !.id = parent, !.i = child]]
            /\ UNCHANGED ret
    /\ UNCHANGED <<enabled, configVars, storeVars, samplerVars, subscribers,
                   metrics_subscribers, callLog,
                   published>>
    /\ UNCHANGED restVars

\* (mutant) only the parent is looked up
ParentLive(parent, child) == parent \in activities

\* (mutant) the lookup also finds the activities moved to history
BothKnown(parent, child) == parent \in Inserted /\ child \in Inserted

\* "if parent_id in self.activities and child_id in self.activities"
BothLive(parent, child) == parent \in activities /\ child \in activities

\* The section of add_child_activity under self._lock.
AddChildLock(t) ==
    LET parent == th[t].id
        child == th[t].i
    IN
    /\ th[t].pc = "child_lock"
    /\ IF BothLive(parent, child)
       THEN /\ Len(objs[parent].children) < MaxChildren
            /\ objs' = [objs EXCEPT ![parent].children = Append(@, child)]
       ELSE UNCHANGED objs
    /\ th' = [th EXCEPT ![t] = Idle]
    /\ ret' = Returned(EmptyId)
    /\ UNCHANGED <<enabled, configVars, activities, activities_history, stats,
                   nextId, ended, published, samplerVars, subscribers,
                   metrics_subscribers, callLog>>
    /\ UNCHANGED restVars

\* ------------------------------------------- start / stop of the sampling
NewTask == [pc |-> "new", cancel |-> FALSE, j |-> 0, sample |-> 0]

\* start_monitoring: "if self._is_monitoring: return"; otherwise mark the
\* monitor as monitoring and, with resource monitoring on, create the task.
StartMonitoringEffect ==
    IF is_monitoring
    THEN UNCHANGED <<is_monitoring, tasks>>
    ELSE /\ is_monitoring' = TRUE
         /\ IF enable_resource_monitoring
            THEN /\ Len(tasks) < MaxTasks
                 /\ tasks' = Append(tasks, NewTask)
            ELSE UNCHANGED tasks

\* start_monitoring called where no event loop is running: the flag is set
\* first, then asyncio.create_task raises RuntimeError and no task exists.
StartMonitoringNoLoop ==
    /\ IF is_monitoring
       THEN /\ ret' = Returned(EmptyId)
            /\ UNCHANGED is_monitoring
       ELSE /\ is_monitoring' = TRUE
            /\ ret' = IF enable_resource_monitoring THEN RaisedOut
                                                   ELSE Returned(EmptyId)
    /\ UNCHANGED <<enabled, configVars, storeVars, system_metrics, tasks,
                   nextSample, metricsLog, subscribers, metrics_subscribers,
                   th, callLog, published>>
    /\ UNCHANGED restVars

\* (mutant) the flag is cleared but the task is not cancelled
StopWithoutCancel ==
    /\ is_monitoring' = FALSE
    /\ UNCHANGED tasks

\* stop_monitoring: clear the flag and cancel self._monitoring_task, the
\* task created last (cancel() of a finished task does nothing).
StopMonitoringEffect ==
    /\ is_monitoring' = FALSE
    /\ tasks' = IF Len(tasks) > 0 /\ tasks[Len(tasks)].pc # "done"
                THEN [tasks EXCEPT ![Len(tasks)].cancel = TRUE]
                ELSE tasks

\* MonitoringServer.start
start_monitoring ==
    /\ StartMonitoringEffect
    /\ ret' = Returned(EmptyId)
    /\ UNCHANGED <<enabled, configVars, storeVars, system_metrics, nextSample,
                   metricsLog, subscribers, metrics_subscribers, th, callLog,
                   published>>
    /\ UNCHANGED restVars

\* MonitoringServer.stop
stop_monitoring ==
    /\ StopMonitoringEffect
    /\ ret' = Returned(EmptyId)
    /\ UNCHANGED <<enabled, configVars, storeVars, system_metrics, nextSample,
                   metricsLog, subscribers, metrics_subscribers, th, callLog,
                   published>>
    /\ UNCHANGED restVars

\* MonitoringIntegration.enable_monitoring(enable)
enable_monitoring(enable) ==
    /\ enabled' = enable
    /\ IF enable THEN StartMonitoringEffect ELSE StopMonitoringEffect
    /\ ret' = Returned(EmptyId)
    /\ UNCHANGED <<configVars, storeVars, system_metrics, nextSample,
                   metricsLog, subscribers, metrics_subscribers, th, callLog,
                   published>>
    /\ UNCHANGED restVars

\* -------------------------------------------- _collect_system_metrics
\* "if len(system_metrics) > max_history: system_metrics = system_metrics[-max_history:]"
MetricsTrim(m) == Trim(m, max_history)

\* (mutant) no inner try/except around the metrics callback
MetricsNotifyUnguarded(kind) == kind # "raise"

\* the inner "try: subscriber(metrics) / except Exception: pass"
MetricsNotifyContinues(kind) == TRUE

\* (mutant) the cancellation is not delivered at the await
CancelIgnored(c) == FALSE

\* "except asyncio.CancelledError: break": the cancellation requested by
\* stop_monitoring is delivered where the task is suspended.
CancelPending(c) == c.cancel

\* (mutant) an exception of the probe leaves the loop
ProbeFailureEnds == "done"

\* "except Exception: ... await asyncio.sleep(1)": the back-off sleep, from
\* which the loop goes round again.
AfterProbeFailure == "backoff"

\* Task k is resumed by the event loop: at its first run, or out of one of
\* its two sleeps.  A pending cancellation ends it there (CancelledError at
\* the await; a task cancelled before its first run never runs).  Otherwise
\* it tests "while self._is_monitoring" and probes; a probe that raises
\* sends it to the back-off sleep, a sample is appended and trimmed under
\* the lock.
SampleStep(k, probeOk) ==
    LET c == tasks[k] IN
    /\ c.pc \in {"new", "sleep", "backoff"}
    /\ IF CancelPending(c) \/ ~is_monitoring
       THEN /\ tasks' = [tasks EXCEPT ![k].pc = "done"]
            /\ UNCHANGED <<system_metrics, nextSample>>
       ELSE IF ~probeOk
       THEN /\ tasks' = [tasks EXCEPT ![k].pc = AfterProbeFailure]
            /\ UNCHANGED <<system_metrics, nextSample>>
       ELSE /\ nextSample <= MaxSamples
            /\ system_metrics' = MetricsTrim(Append(system_metrics, nextSample))
            /\ nextSample' = nextSample + 1
            /\ tasks' = [tasks EXCEPT ![k] =
                  IF Len(metrics_subscribers) = 0
                  THEN [c EXCEPT !.pc = "sleep"]
                  ELSE [c EXCEPT !.pc = "notify", !.j = 1, !.sample = nextSample]]
    /\ UNCHANGED <<enabled, configVars, storeVars, is_monitoring, metricsLog,
                   subscribers, metrics_subscribers, th, ret, callLog,
                   published>>
    /\ UNCHANGED restVars

\* One iteration of "for subscriber in self.metrics_subscribers".  An
\* exception that left the inner try would reach the loop's own
\* "except Exception" and send the task to the back-off sleep.
MetricsNotifyStep(k) ==
    LET c == tasks[k]
        kind == metrics_subscribers[c.j]
    IN
    /\ c.pc = "notify"
    /\ metricsLog' = Append(metricsLog, <<c.j, c.sample>>)
    /\ tasks' = [tasks EXCEPT ![k] =
          IF kind = "raise" /\ ~MetricsNotifyContinues(kind)
          THEN [c EXCEPT !.pc = "backoff", !.j = 0, !.sample = 0]
          ELSE IF c.j < Len(metrics_subscribers)
          THEN [c EXCEPT !.j = c.j + 1]
          ELSE [c EXCEPT !.pc = "sleep", !.j = 0, !.sample = 0]]
    /\ UNCHANGED <<enabled, configVars, storeVars, system_metrics,
                   is_monitoring, nextSample, subscribers, metrics_subscribers,
                   th, ret, callLog,
                   published>>
    /\ UNCHANGED restVars

\* ------------------------------------------------ update_agent_metrics
\* Rational numbers <<numerator, denominator>> in lowest terms stand for the
\* floats of average_response_time.
RECURSIVE GCD(_, _)
GCD(a, b) == IF b = 0 THEN a ELSE GCD(b, a % b)
Ratio(n, d) == IF n = 0 THEN <<0, 1>> ELSE <<n \div GCD(n, d), d \div GCD(n, d)>>

\* AgentMetrics(agent_name, 0, 0, 0.0, {}, 0)
NewAgentMetrics ==
    [tasks_completed |-> 0, tasks_failed |-> 0, average_response_time |-> <<0, 1>>,
     tool_usage |-> [tool \in Tools |-> 0], token_usage |-> 0]

\* (mutant) the feature flags are not looked at
UpdateAlwaysOn == FALSE

\* "if not self.config.enabled or not self.config.enable_agent_metrics: return"
UpdateDisabled == ~enabled \/ ~enable_agent_metrics

\* The flags: "tasks_completed += 1", "tasks_failed += 1".
WithFlags(m, u) ==
    [m EXCEPT !.tasks_completed = IF u.completed THEN @ + 1 ELSE @,
              !.tasks_failed = IF u.failed THEN @ + 1 ELSE @]

\* (mutant) total_tasks is the count before this call's flags
WithResponseTimeOldCount(m, u) ==
    LET total_tasks == m.tasks_completed + m.tasks_failed
                          - (IF u.completed THEN 1 ELSE 0) - (IF u.failed THEN 1 ELSE 0)
        avg == m.average_response_time
    IN IF u.rt # NoSample /\ total_tasks > 0
       THEN [m EXCEPT !.average_response_time =
                Ratio(avg[1] * (total_tasks - 1) + u.rt * avg[2], avg[2] * total_tasks)]
       ELSE m

\* The moving average: with total_tasks = tasks_completed + tasks_failed > 0,
\* (average_response_time * (total_tasks - 1) + response_time) / total_tasks.
WithResponseTime(m, u) ==
    LET total_tasks == m.tasks_completed + m.tasks_failed
        avg == m.average_response_time
    IN IF u.rt # NoSample /\ total_tasks > 0
       THEN [m EXCEPT !.average_response_time =
                Ratio(avg[1] * (total_tasks - 1) + u.rt * avg[2], avg[2] * total_tasks)]
       ELSE m

\* "tool_usage[tool] = tool_usage.get(tool, 0) + 1", "token_usage += tokens"
WithToolAndTokens(m, u) ==
    [m EXCEPT !.tool_usage = IF u.tool # "" THEN [@ EXCEPT ![u.tool] = @ + 1] ELSE @,
              !.token_usage = @ + u.tokens]

\* The calls made so far, applied or under way.
CallsBegun == Len(applied) + Cardinality({t \in Threads : ath[t].pc # "idle"})

\* update_agent_metrics(name, u) by thread t, up to the lock.
UpdateCall(t, name, u, limit) ==
    /\ ath[t].pc = "idle"
    /\ IF UpdateDisabled
       THEN UNCHANGED ath
       ELSE /\ CallsBegun < limit
            /\ ath' = [ath EXCEPT ![t] = [pc |-> "upd_lock", name |-> name, u |-> u]]
    /\ UNCHANGED <<monitorVars, laterVars, readerVars, serverVars, enable_agent_metrics, agent_metrics,
                   lock, applied, commits, views, observed>>

\* Thread t enters "with self._lock", creates the entity's object when it is
\* missing and counts the flags.
UpdateFlags(t) ==
    LET c == ath[t]
        m == IF c.name \in DOMAIN agent_metrics THEN agent_metrics[c.name]
                                                ELSE NewAgentMetrics
    IN
    /\ c.pc = "upd_lock"
    /\ lock = "free"
    /\ lock' = t
    /\ agent_metrics' = [n \in DOMAIN agent_metrics \cup {c.name} |->
                            IF n = c.name THEN WithFlags(m, c.u) ELSE agent_metrics[n]]
    /\ ath' = [ath EXCEPT ![t].pc = "upd_rest"]
    /\ UNCHANGED <<monitorVars, laterVars, readerVars, serverVars, enable_agent_metrics, applied,
                   commits, views, observed>>

\* Thread t applies the response time, the tool and the tokens and leaves
\* the lock.
UpdateRest(t) ==
    LET c == ath[t] IN
    /\ c.pc = "upd_rest"
    /\ agent_metrics' = [agent_metrics EXCEPT ![c.name] =
                            WithToolAndTokens(WithResponseTime(@, c.u), c.u)]
    /\ lock' = "free"
    /\ ath' = [ath EXCEPT ![t] = NoCall]
    /\ applied' = Append(applied, <<c.name, c.u>>)
    /\ commits' = commits \cup {agent_metrics'}
    /\ UNCHANGED <<monitorVars, laterVars, readerVars, serverVars, enable_agent_metrics, views, observed>>

\* get_agent_metrics: under the lock, "self.agent_metrics.copy()", a new
\* dict holding the same AgentMetrics objects.
get_agent_metrics ==
    /\ lock = "free"
    /\ views' = DOMAIN agent_metrics
    /\ UNCHANGED <<monitorVars, laterVars, readerVars, serverVars, enable_agent_metrics, agent_metrics,
                   lock, ath, applied, commits, observed>>

\* The caller of get_agent_metrics reads the fields of an object of the
\* returned dict (as _serialize_agent_metrics does), without the lock.
ReadAgentMetrics(name) ==
    /\ name \in views
    /\ observed' = {[name |-> name, value |-> agent_metrics[name]]}
    /\ UNCHANGED <<monitorVars, laterVars, readerVars, serverVars, enable_agent_metrics, agent_metrics,
                   lock, ath, applied, commits, views>>

\* ------------------------------------------------- the monitoring hooks
\* The ways the body of a "with hooks.monitor_...():" block can end: it
\* returns, it raises an Exception, or it raises a BaseException that is not
\* an Exception (KeyboardInterrupt, SystemExit, asyncio.CancelledError).
BlockOutcomes == {"return", "Exception", "BaseException"}

\* The context managers: monitor_agent_execution, which also updates the
\* agent's metrics, and the four that only end the activity.
HookKinds == {"agent", "tool"}

\* "status = COMPLETED; try: yield / except Exception: status = FAILED; raise"
HookStatus(outcome) == IF outcome = "Exception" THEN "failed" ELSE "completed"

\* the update monitor_agent_execution sends from its finally block
HookUpdate(status, d) ==
    [EmptyUpdate EXCEPT !.completed = (status = "completed"),
                        !.failed = (status # "completed"),
                        !.rt = d]

\* Entry of a context manager: start_activity with the hook's metadata, run
\* to its return by the one caller there is.
HookEnter(kind, limit) ==
    /\ hook.pc \in {"out", "left"}
    /\ hook.uses < HookUses
    /\ th[MainThread].pc = "idle"
    /\ IF StartDisabled
       THEN /\ hook' = [NoHook EXCEPT !.pc = "in", !.kind = kind, !.id = EmptyId,
                                      !.starts = 1, !.uses = hook.uses + 1]
            /\ ret' = Returned(EmptyId)
            /\ UNCHANGED <<objs, nextId, activities, stats>>
       ELSE /\ nextId <= limit
            /\ hook' = [NoHook EXCEPT !.pc = "in", !.kind = kind, !.id = nextId,
                                      !.starts = 1, !.uses = hook.uses + 1]
            /\ objs' = objs @@ (nextId :> NewActivity({<<"k", 1>>}))
            /\ nextId' = nextId + 1
            /\ activities' = activities \cup {nextId}
            /\ stats' = StatsAfterStart
            /\ ret' = Returned(nextId)
    /\ UNCHANGED <<enabled, configVars, activities_history, ended, published,
                   samplerVars, subscribers, metrics_subscribers, th, callLog>>
    /\ UNCHANGED <<serverVars, agentVars, readerVars, visualVars>>

\* The block ends and the generator runs its except and finally clauses:
\* update_agent_metrics (monitor_agent_execution only), then end_activity,
\* each run to its return; an exception of the block is raised again.
HookExit(outcome, d) ==
    LET status == HookStatus(outcome)
        u == HookUpdate(status, d)
        m == IF "agent" \in DOMAIN agent_metrics THEN agent_metrics["agent"]
                                                 ELSE NewAgentMetrics
    IN
    /\ hook.pc = "in"
    /\ th[MainThread].pc = "idle"
    /\ lock = "free"
    /\ hook' = [hook EXCEPT !.pc = "left", !.ends = @ + 1, !.status = status,
                            !.outcome = outcome,
                            !.raised = IF outcome = "return" THEN "none" ELSE outcome]
    /\ IF hook.kind = "agent" /\ ~UpdateDisabled
       THEN /\ agent_metrics' = [n \in DOMAIN agent_metrics \cup {"agent"} |->
                  IF n = "agent"
                  THEN WithToolAndTokens(WithResponseTime(WithFlags(m, u), u), u)
                  ELSE agent_metrics[n]]
            /\ applied' = Append(applied, <<"agent", u>>)
            /\ commits' = commits \cup {agent_metrics'}
       ELSE UNCHANGED <<agent_metrics, applied, commits>>
    /\ IF EndEarlyReturn(hook.id) \/ ~InLiveSet(hook.id)
       THEN UNCHANGED <<activities, objs, activities_history, stats, ended>>
       ELSE EndEffect(hook.id, status, {<<"k", 2>>}, d)
    /\ ret' = IF outcome = "return" THEN Returned(EmptyId) ELSE RaisedOut
    /\ UNCHANGED <<enabled, configVars, nextId, published, samplerVars,
                   subscribers, metrics_subscribers, th, callLog>>
    /\ UNCHANGED <<serverVars, readerVars, enable_agent_metrics, lock, ath, views,
                   observed, visualVars>>

\* ------------------------------------------------- the visual sessions
\* The ids a client can send: those created so far and one never created.
SessionIds == 1..(MaxSessions + 1)

\* the endpoints that look a session up and change nothing
LookupOps == {"detail", "recording", "logs"}

\* (mutant) only a running session is found
SessionFoundIfRunning(id) == id \in DOMAIN sessions /\ sessions[id].status = "running"

\* "self.sessions.get(session_id)" / "if session_id in self.sessions"
SessionFound(id) == id \in DOMAIN sessions

\* POST /api/visual-sessions: create_session stores the session with status
\* starting, and the endpoint schedules _start_visual_session for it.
create_visual_session ==
    /\ nextSession <= MaxSessions
    /\ sessions' = sessions @@ (nextSession :> [status |-> "starting"])
    /\ starters' = starters @@ (nextSession :> "sleeping")
    /\ nextSession' = nextSession + 1
    /\ UNCHANGED <<monitorVars, serverVars, agentVars, readerVars, hookVars, vret>>

\* GET /api/visual-sessions/{id}, .../recording and .../logs: get_session,
\* 404 when it returns None.
get_session(op, id) ==
    /\ vret.n < VisualCalls
    /\ vret' = [n |-> vret.n + 1, op |-> op, id |-> id,
                code |-> IF SessionFound(id) THEN 200 ELSE 404]
    /\ UNCHANGED <<monitorVars, serverVars, agentVars, readerVars, hookVars,
                   sessions, starters, nextSession>>

\* POST /api/visual-sessions/{id}/stop: stop_session, 404 when it returns
\* False.
stop_session(id) ==
    /\ vret.n < VisualCalls
    /\ IF SessionFound(id)
       THEN /\ sessions' = [sessions EXCEPT ![id].status = "stopped"]
            /\ vret' = [n |-> vret.n + 1, op |-> "stop", id |-> id, code |-> 200]
       ELSE /\ UNCHANGED sessions
            /\ vret' = [n |-> vret.n + 1, op |-> "stop", id |-> id, code |-> 404]
    /\ UNCHANGED <<monitorVars, serverVars, agentVars, readerVars, hookVars,
                   starters, nextSession>>

\* cleanup_expired_sessions: the sessions found expired or idle (any of
\* them, as far as the clock is concerned) are deleted.
cleanup_expired_sessions(expired) ==
    /\ expired # {}
    /\ expired \subseteq DOMAIN sessions
    /\ sessions' = [id \in DOMAIN sessions \ expired |-> sessions[id]]
    /\ UNCHANGED <<monitorVars, serverVars, agentVars, readerVars, hookVars,
                   starters, nextSession, vret>>

\* _start_visual_session(id) after its sleep: "session = get_session(id);
\* if session: session['status'] = 'running'".
StartVisualSession(id) ==
    /\ id \in DOMAIN starters
    /\ starters[id] = "sleeping"
    /\ starters' = [starters EXCEPT ![id] = "done"]
    /\ sessions' = IF SessionFound(id)
                   THEN [sessions EXCEPT ![id].status = "running"]
                   ELSE sessions
    /\ UNCHANGED <<monitorVars, serverVars, agentVars, readerVars, hookVars,
                   nextSession, vret>>

\* ------------------------------------------------- the snapshot accessors
\* "with self._lock: return list(self.activities.values())": a new list of
\* the Activity objects of the live set.
get_active_activities ==
    /\ held' = activities
    /\ UNCHANGED <<monitorVars, laterVars, serverVars, agentVars, recent, snapVars>>

\* "with self._lock: return self.activities_history[-limit:]"
get_recent_activities(limit) ==
    /\ recent' = [limit |-> limit, result |-> NegSlice(activities_history, limit)]
    /\ UNCHANGED <<monitorVars, laterVars, serverVars, agentVars, held, snapVars>>

\* get_statistics: under the lock, a copy of the counters with the sizes of
\* the live set and of history.
get_statistics ==
    [activities_started |-> stats.started,
     activities_completed |-> stats.completed,
     activities_failed |-> stats.failed,
     total_duration |-> stats.total_duration,
     active_activities |-> Cardinality(activities),
     total_activities |-> Len(activities_history)]

\* --------------------------------------------------- _send_initial_data
\* "self.monitor.get_recent_activities(50)"
SnapshotLimit == 50

\* The activities the store holds: the live ones and those in history.
Existing == activities \cup Range(activities_history)

\* _send_initial_data begins: "activities = get_recent_activities(50)", the
\* first of its acquisitions of the store's lock.
SnapshotRecent ==
    /\ snap.pc \in {"idle", "sent"}
    /\ snap.n < SnapCalls
    /\ snap' = [NoSnapshot EXCEPT
                   !.pc = "recent_read",
                   !.n = snap.n + 1,
                   !.known = Existing,
                   !.activities = NegSlice(activities_history, SnapshotLimit)]
    /\ UNCHANGED <<monitorVars, laterVars, serverVars, agentVars, held, recent>>

\* "active_activities = get_active_activities()": the second acquisition.
SnapshotActive ==
    /\ snap.pc = "recent_read"
    /\ snap' = [snap EXCEPT !.pc = "active_read",
                            !.active_activities = activities]
    /\ UNCHANGED <<monitorVars, laterVars, serverVars, agentVars, held, recent>>

\* The rest of _send_initial_data: get_system_metrics and get_agent_metrics,
\* which do not read the activities, then get_statistics, the building of
\* initial_data from what was read, and the send.
SnapshotSend ==
    /\ snap.pc = "active_read"
    /\ snap' = [snap EXCEPT !.pc = "sent",
                            !.known = @ \cap Existing,
                            !.statistics = get_statistics]
    /\ UNCHANGED <<monitorVars, laterVars, serverVars, agentVars, held, recent>>

\* ------------------------------------------------- the streaming server
\* The messages of the /ws endpoint, by what the client can tell apart.
InitialState == <<"initial_state", EmptyId, "none">>
ActivityUpdate(id) == <<"activity_update", id, objs[id].status>>

\* manager.broadcast(message) wrapped in a task: not started yet.
NewBroadcast(msg) ==
    [msg |-> msg, pc |-> "pending", start |-> {}, visited |-> {}, n |-> 0,
     disconnected |-> {}]

\* _on_activity_update, the callback the server registers with the store:
\* it serializes the activity as it is now and creates the broadcast task.
on_activity_update(id) ==
    /\ bcasts' = Append(bcasts, NewBroadcast(ActivityUpdate(id)))
    /\ UNCHANGED <<active_connections, conn, sent, joined>>
    /\ UNCHANGED <<agentVars, readerVars, laterVars>>

\* websocket_endpoint begins: manager.connect awaits websocket.accept().
Connect(c) ==
    /\ conn[c].pc = "none"
    /\ conn' = [conn EXCEPT ![c].pc = "accepting"]
    /\ UNCHANGED <<monitorVars, laterVars, readerVars, agentVars, active_connections, sent, bcasts, joined>>

\* accept() has returned: the websocket joins active_connections and, with
\* no suspension in between, _send_initial_data writes the snapshot; the
\* endpoint then waits in receive_text().
Accepted(c) ==
    /\ conn[c].pc = "accepting"
    /\ active_connections' = active_connections \cup {c}
    /\ sent' = [sent EXCEPT ![c] = Append(@, InitialState)]
    /\ joined' = [joined EXCEPT ![c] = Len(bcasts)]
    /\ conn' = [conn EXCEPT ![c].pc = "open"]
    /\ UNCHANGED <<monitorVars, laterVars, readerVars, agentVars, bcasts>>

\* The client of an open websocket goes away: from now on writes to it fail
\* and its receive_text() raises WebSocketDisconnect.
ClientLeaves(c) ==
    /\ conn[c].pc = "open"
    /\ conn[c].alive
    /\ conn' = [conn EXCEPT ![c].alive = FALSE]
    /\ UNCHANGED <<monitorVars, laterVars, readerVars, agentVars, active_connections, sent, bcasts, joined>>

\* "except WebSocketDisconnect: self.manager.disconnect(websocket)":
\* set.remove raises KeyError when the websocket is not in the set.
EndpointDisconnect(c) ==
    /\ conn[c].pc = "open"
    /\ ~conn[c].alive
    /\ IF c \in active_connections
       THEN /\ active_connections' = active_connections \ {c}
            /\ conn' = [conn EXCEPT ![c].pc = "closed"]
       ELSE /\ conn' = [conn EXCEPT ![c].pc = "crashed"]
            /\ UNCHANGED active_connections
    /\ UNCHANGED <<monitorVars, laterVars, readerVars, agentVars, sent, bcasts, joined>>

\* One pass of "for connection in self.active_connections" for websocket c:
\* "await connection.send_text(message)" hands the message to the websocket
\* or fails, and the failure is caught and remembered.
BroadcastSend(b, it, c) ==
    /\ sent' = IF conn[c].alive
               THEN [sent EXCEPT ![c] = Append(@, it.msg)]
               ELSE sent
    /\ bcasts' = [bcasts EXCEPT ![b] =
          [it EXCEPT !.pc = "iterating",
                     !.visited = @ \cup {c},
                     !.n = @ + 1,
                     !.disconnected = IF conn[c].alive THEN @ ELSE @ \cup {c}]]
    /\ UNCHANGED active_connections

\* The end of the first loop and the whole second one, "for connection in
\* disconnected: self.active_connections.remove(connection)", which has no
\* suspension point.  remove raises KeyError for a websocket that is no
\* longer in the set; the websockets visited before that one, in the
\* arbitrary order of a set, have been removed.
BroadcastFinish(b, it) ==
    IF it.disconnected \subseteq active_connections
    THEN /\ active_connections' = active_connections \ it.disconnected
         /\ bcasts' = [bcasts EXCEPT ![b] = [it EXCEPT !.pc = "done"]]
         /\ UNCHANGED sent
    ELSE /\ \E removed \in SUBSET (it.disconnected \cap active_connections) :
               active_connections' = active_connections \ removed
         /\ bcasts' = [bcasts EXCEPT ![b] = [it EXCEPT !.pc = "crashed"]]
         /\ UNCHANGED sent

\* The order in which an unmodified set yields its members is arbitrary but
\* the same for every loop over it: here, by websocket number.
NextInOrder(S) == CHOOSE c \in S : \A d \in S : c <= d

\* Broadcast task b runs from one suspension point to the next.  Tasks start
\* in creation order; after that any suspended task may be resumed.  The
\* set iterator raises RuntimeError when the set has another size than at
\* the start of the loop; when the size is the same but the members are
\* not, which members it still yields is not defined: any of them, or none.
BroadcastStep(b) ==
    LET t == bcasts[b]
        it == IF t.pc = "pending"
              THEN [t EXCEPT !.start = active_connections]
              ELSE t
    IN
    /\ t.pc \in {"pending", "iterating"}
    /\ t.pc = "pending" => \A a \in 1..(b - 1) : bcasts[a].pc # "pending"
    /\ IF Cardinality(active_connections) # Cardinality(it.start)
       THEN /\ bcasts' = [bcasts EXCEPT ![b] = [it EXCEPT !.pc = "crashed"]]
            /\ UNCHANGED <<active_connections, sent>>
       ELSE IF active_connections = it.start
       THEN IF it.visited = it.start
            THEN BroadcastFinish(b, it)
            ELSE BroadcastSend(b, it, NextInOrder(it.start \ it.visited))
       ELSE \/ \E c \in active_connections :
                  /\ it.n < Cardinality(it.start)
                  /\ BroadcastSend(b, it, c)
            \/ BroadcastFinish(b, it)
    /\ UNCHANGED <<monitorVars, laterVars, readerVars, agentVars, conn, joined>>

\* ------------------------------------------------------ specifications
\* The steps of start_activity and end_activity by thread t, the caller's
\* status and metadata and the measured duration drawn from the given sets,
\* at most limit activities being created.
StoreStep(t, statuses, startMetas, endMetas, durations, limit) ==
    \/ \E md \in startMetas : StartCall(t, md, limit)
    \/ StartLock(t)
    \/ \E id \in EndArgs, s \in statuses, md \in endMetas : EndCall(t, id, s, md)
    \/ \E d \in durations : EndLock(t, d)

\* The steps of add_child_activity by thread t, for the given pairs of ids.
ChildStep(t, pairs) ==
    \/ \E pc \in pairs : AddChildCall(t, pc[1], pc[2])
    \/ AddChildLock(t)

\* Producers in several threads against one store, nobody subscribed.
InitThreads ==
    /\ Init
    /\ enable_agent_metrics
    /\ subscribers = <<>>
    /\ metrics_subscribers = <<>>
    /\ ~enable_resource_monitoring

Next ==
    \/ \E t \in Threads :
           StoreStep(t, {"completed", "failed"}, {NoMeta}, {NoMeta}, {1}, MaxActs)
    \/ \E t \in Threads : ChildStep(t, {<<1, 2>>})

Spec == InitThreads /\ [][Next]_vars

\* One producer with every status, metadata and duration, one subscriber,
\* and the enabled flag switched at run time.
InitSeq ==
    /\ Init
    /\ enable_agent_metrics
    /\ subscribers = <<"ok">>
    /\ metrics_subscribers = <<>>
    /\ ~enable_resource_monitoring

NextSeq ==
    \/ StoreStep(MainThread, ActivityStatus, StartMetas, EndMetas, Durations, SeqActs)
    \/ /\ NotifyStep(MainThread)
       /\ UNCHANGED restVars
    \/ \E b \in BOOLEAN : enable_monitoring(b)

SpecSeq == InitSeq /\ [][NextSeq]_vars

\* One producer in front of every registry of activity subscribers.
InitBus ==
    /\ Init
    /\ enable_agent_metrics
    /\ metrics_subscribers = <<>>
    /\ ~enable_resource_monitoring

NextBus ==
    \/ StoreStep(MainThread, {"completed"}, {NoMeta}, {NoMeta}, {1}, BusActs)
    \/ /\ NotifyStep(MainThread)
       /\ UNCHANGED restVars

SpecBus == InitBus /\ [][NextBus]_vars

\* One producer, the sampling loop, and observers subscribed to both topics.
InitLoop ==
    /\ Init
    /\ enable_agent_metrics
    /\ subscribers = metrics_subscribers
    /\ Len(subscribers) <= 1

NextLoop ==
    \/ StoreStep(MainThread, {"completed"}, {NoMeta}, {NoMeta}, {1}, LoopActs)
    \/ /\ NotifyStep(MainThread)
       /\ UNCHANGED restVars
    \/ start_monitoring
    \/ stop_monitoring
    \/ \E b \in BOOLEAN : enable_monitoring(b)
    \/ \E k \in 1..Len(tasks), ok \in BOOLEAN : SampleStep(k, ok)
    \/ \E k \in 1..Len(tasks) : MetricsNotifyStep(k)

SpecLoop == InitLoop /\ [][NextLoop]_vars

\* Producers in two threads in front of one subscriber: a thread can read an
\* id from the live set (get_active_activities) and end it while the thread
\* that started it has not notified yet.
InitRace ==
    /\ Init
    /\ enable_agent_metrics
    /\ enabled
    /\ subscribers = <<"ok">>
    /\ metrics_subscribers = <<>>
    /\ ~enable_resource_monitoring

NextRace ==
    \/ \E t \in Threads :
           StoreStep(t, {"completed"}, {NoMeta}, {NoMeta}, {1}, RaceActs)
    \/ /\ \E t \in Threads : NotifyStep(t)
       /\ UNCHANGED restVars

SpecRace == InitRace /\ [][NextRace]_vars

\* The streaming server in front of one producer that runs on the event
\* loop: the server's callback is the store's only activity subscriber.
InitServer ==
    /\ Init
    /\ enable_agent_metrics
    /\ enabled
    /\ max_history = MaxCap
    /\ subscribers = <<"ok">>
    /\ metrics_subscribers = <<>>
    /\ ~enable_resource_monitoring

NextServer ==
    \/ StoreStep(MainThread, {"completed"}, {NoMeta}, {NoMeta}, {1}, ServerActs)
    \/ /\ NotifyStep(MainThread)
       /\ on_activity_update(th[MainThread].id)
    \/ start_monitoring
    \/ stop_monitoring
    \/ \E c \in Conns : Connect(c)
    \/ \E c \in Conns : Accepted(c)
    \/ \E c \in Conns : ClientLeaves(c)
    \/ \E c \in Conns : EndpointDisconnect(c)
    \/ \E b \in 1..Len(bcasts) : BroadcastStep(b)

SpecServer == InitServer /\ [][NextServer]_vars

\* The sampling loop on its own: the monitor is started, inside and outside
\* a running event loop, and stopped, in any order.
InitSampler ==
    /\ Init
    /\ enable_agent_metrics
    /\ max_history = MaxCap
    /\ subscribers = <<>>
    /\ metrics_subscribers = <<"ok">>

NextSampler ==
    \/ start_monitoring
    \/ StartMonitoringNoLoop
    \/ stop_monitoring
    \/ \E b \in BOOLEAN : enable_monitoring(b)
    \/ \E k \in 1..Len(tasks), ok \in BOOLEAN : SampleStep(k, ok)
    \/ \E k \in 1..Len(tasks) : MetricsNotifyStep(k)

SpecSampler == InitSampler /\ [][NextSampler]_vars

\* The event loop resumes task k once its sleep has elapsed, and the probe
\* does not raise for ever.
Resume(k) == k \in 1..Len(tasks) /\ SampleStep(k, TRUE)

\* The callbacks of a round return, so the loop of task k over its
\* subscribers goes on.
NotifyNext(k) == k \in 1..Len(tasks) /\ MetricsNotifyStep(k)

\* The sampling loop under a fair event loop.
SpecSamplerFair ==
    /\ SpecSampler
    /\ \A k \in 1..MaxTasks : WF_vars(Resume(k)) /\ WF_vars(NotifyNext(k))

\* The inputs of update_agent_metrics for the moving average: every
\* combination of the flags with no or one of two response times.
AvgUpdates ==
    {[EmptyUpdate EXCEPT !.completed = c, !.failed = f, !.rt = r] :
        c \in BOOLEAN, f \in BOOLEAN, r \in {NoSample, 1, 3}}

\* One caller of update_agent_metrics, with the feature flags in any state.
InitAvg ==
    /\ Init
    /\ max_history = MaxCap
    /\ subscribers = <<>>
    /\ metrics_subscribers = <<>>
    /\ ~enable_resource_monitoring

NextAvg ==
    \/ \E name \in Entities, u \in AvgUpdates : UpdateCall(MainThread, name, u, AvgCalls)
    \/ UpdateFlags(MainThread)
    \/ UpdateRest(MainThread)
    \/ \E b \in BOOLEAN : enable_monitoring(b)

SpecAvg == InitAvg /\ [][NextAvg]_vars

\* The inputs of the concurrent callers: a completed task with a tool and
\* tokens, and a failed task with tokens.
AgentUpdates ==
    {[EmptyUpdate EXCEPT !.completed = TRUE, !.tool = "bash", !.tokens = 2],
     [EmptyUpdate EXCEPT !.failed = TRUE, !.tokens = 1]}

\* Callers of update_agent_metrics in two threads and a reader of
\* get_agent_metrics.
InitAgents ==
    /\ Init
    /\ enabled
    /\ enable_agent_metrics
    /\ max_history = MaxCap
    /\ subscribers = <<>>
    /\ metrics_subscribers = <<>>
    /\ ~enable_resource_monitoring

NextAgents ==
    \/ \E t \in Threads, name \in Entities, u \in AgentUpdates :
          UpdateCall(t, name, u, AgentCalls)
    \/ \E t \in Threads : UpdateFlags(t)
    \/ \E t \in Threads : UpdateRest(t)
    \/ get_agent_metrics
    \/ \E name \in Entities : ReadAgentMetrics(name)

SpecAgents == InitAgents /\ [][NextAgents]_vars

\* The ids handed to add_child_activity: two activities either way round,
\* and a child the store never issued.
ChildPairs == {<<1, 2>>, <<2, 1>>, <<1, UnknownId>>}

\* Producers and callers of add_child_activity in several threads, with the
\* enabled flag switched at run time.
InitChild ==
    /\ Init
    /\ enable_agent_metrics
    /\ max_history = MaxCap
    /\ subscribers = <<>>
    /\ metrics_subscribers = <<>>
    /\ ~enable_resource_monitoring

NextChild ==
    \/ \E t \in Threads :
           StoreStep(t, {"completed", "cancelled"}, {NoMeta}, {NoMeta}, {1}, ChildActs)
    \/ \E t \in Threads : ChildStep(t, ChildPairs)
    \/ \E b \in BOOLEAN : enable_monitoring(b)

SpecChild == InitChild /\ [][NextChild]_vars

\* One producer and a caller of the snapshot accessors.
InitReader ==
    /\ Init
    /\ enabled
    /\ enable_agent_metrics
    /\ subscribers = <<>>
    /\ metrics_subscribers = <<>>
    /\ ~enable_resource_monitoring

NextReader ==
    \/ StoreStep(MainThread, {"completed"}, {NoMeta}, {{<<"k", 2>>}}, {1}, ReaderActs)
    \/ get_active_activities
    \/ \E limit \in 0..MaxLimit : get_recent_activities(limit)
    \/ UpdateCall(MainThread, "agent", [EmptyUpdate EXCEPT !.completed = TRUE],
                  ReaderCalls)
    \/ UpdateFlags(MainThread)
    \/ UpdateRest(MainThread)
    \/ get_agent_metrics

SpecReader == InitReader /\ [][NextReader]_vars

\* A producer thread beside the event loop, which runs _send_initial_data.
InitSnapshot ==
    /\ Init
    /\ enabled
    /\ enable_agent_metrics
    /\ max_history > 0
    /\ subscribers = <<>>
    /\ metrics_subscribers = <<>>

NextSnapshot ==
    \/ StoreStep(MainThread, {"completed", "failed"}, {NoMeta}, {NoMeta}, {1},
                 SnapActs)
    \/ SnapshotRecent
    \/ SnapshotActive
    \/ SnapshotSend

SpecSnapshot == InitSnapshot /\ [][NextSnapshot]_vars

\* Producers in two threads and the sampling loop, one observer subscribed
\* to each topic.
InitLock ==
    /\ Init
    /\ enabled
    /\ enable_agent_metrics
    /\ enable_resource_monitoring
    /\ max_history = MaxCap
    /\ subscribers = <<"ok">>
    /\ metrics_subscribers = <<"ok">>

NextLock ==
    \/ \E t \in Threads :
           StoreStep(t, {"completed"}, {NoMeta}, {NoMeta}, {1}, LockActs)
    \/ \E t \in Threads :
           /\ NotifyStep(t)
           /\ UNCHANGED restVars
    \/ start_monitoring
    \/ \E k \in 1..Len(tasks) : SampleStep(k, TRUE)
    \/ \E k \in 1..Len(tasks) : MetricsNotifyStep(k)

SpecLock == InitLock /\ [][NextLock]_vars

\* One caller of every operation of the store: start_activity,
\* end_activity, add_child_activity and update_agent_metrics.
InitFrozen ==
    /\ Init
    /\ enabled
    /\ enable_agent_metrics
    /\ max_history = MaxCap
    /\ subscribers = <<>>
    /\ metrics_subscribers = <<>>
    /\ ~enable_resource_monitoring

NextFrozen ==
    \/ StoreStep(MainThread, {"completed", "failed"}, {NoMeta}, {{<<"k", 2>>}}, {1},
                 FrozenActs)
    \/ ChildStep(MainThread, ChildPairs)
    \/ UpdateCall(MainThread, "agent", [EmptyUpdate EXCEPT !.completed = TRUE],
                  FrozenCalls)
    \/ UpdateFlags(MainThread)
    \/ UpdateRest(MainThread)

SpecFrozen == InitFrozen /\ [][NextFrozen]_vars

\* One caller of the context managers of MonitoringHooks, with the enabled
\* flag switched at run time.
InitHooks ==
    /\ Init
    /\ enable_agent_metrics
    /\ max_history = MaxCap
    /\ subscribers = <<>>
    /\ metrics_subscribers = <<>>
    /\ ~enable_resource_monitoring

NextHooks ==
    \/ \E kind \in HookKinds : HookEnter(kind, HookUses)
    \/ \E outcome \in BlockOutcomes, d \in Durations : HookExit(outcome, d)
    \/ \E b \in BOOLEAN : enable_monitoring(b)

SpecHooks == InitHooks /\ [][NextHooks]_vars

\* The visual sessions API with its background tasks.
InitVisual ==
    /\ Init
    /\ enabled
    /\ enable_agent_metrics
    /\ max_history = MaxCap
    /\ subscribers = <<>>
    /\ metrics_subscribers = <<>>
    /\ ~enable_resource_monitoring

NextVisual ==
    \/ create_visual_session
    \/ \E op \in LookupOps, id \in SessionIds : get_session(op, id)
    \/ \E id \in SessionIds : stop_session(id)
    \/ \E expired \in SUBSET DOMAIN sessions : cleanup_expired_sessions(expired)
    \/ \E id \in SessionIds : StartVisualSession(id)

SpecVisual == InitVisual /\ [][NextVisual]_vars

\* ------------------------------------------------------------ claims
InHistory(id) == id \in Range(activities_history)

\* The ids start_activity has returned to its caller.
ReturnedIds ==
    {id \in Inserted : \A t \in Threads : ~(th[t].pc = "start_notify" /\ th[t].id = id)}

\* The last n elements of s (all of s when it is shorter).
LastN(s, n) == IF n >= Len(s) THEN s ELSE SubSeq(s, Len(s) - n + 1, Len(s))

\* C1: no activity id is at the same time a key of the live set and the id of
\* an entry of the history, in any state of any interleaving of
\* start_activity, end_activity and add_child_activity by concurrent threads.
C1_LiveHistoryDisjoint ==
    \A id \in DOMAIN objs : ~(id \in activities /\ InHistory(id))

\* C1 witness: one thread is about to move a live activity to history while
\* the other is inside a call of its own, and history already has an entry.
C1_Witness ==
    /\ th["t1"].pc = "end_lock"
    /\ th["t1"].id \in activities
    /\ th["t2"].pc \in {"start_lock", "end_lock", "child_lock"}
    /\ Len(activities_history) >= 1

\* C2 as claimed: an activity whose id start_activity has returned is always
\* in the live set or in history, never in neither.
C2_NeverNeither ==
    \A id \in ReturnedIds : id \in activities \/ InHistory(id)

\* C2 amended: an activity whose id start_activity has returned is in exactly
\* one of the live set and history, unless the history cap has evicted it:
\* it is in neither only when it has been ended and at least max_history
\* activities have been ended after it.
C2_OneLocationUnlessEvicted ==
    \A id \in ReturnedIds :
        /\ ~(id \in activities /\ InHistory(id))
        /\ (id \notin activities /\ ~InHistory(id)) =>
              \E i \in 1..Len(ended) :
                  ended[i] = id /\ Len(ended) - i >= max_history

\* C2 witness: an activity that was created and ended is in neither place.
C2_Witness ==
    \E id \in ReturnedIds :
        /\ id \notin activities
        /\ ~InHistory(id)
        /\ objs[id].duration # NoDuration

\* C4: once at least max_history activities have been ended, history holds
\* exactly the max_history most recently ended ones, in the order of their ends.
C4_HistoryIsLastCap ==
    Len(ended) >= max_history => activities_history = LastN(ended, max_history)

\* C5: history never holds more than max_history entries, for every cap >= 0.
C5_HistoryWithinCap == Len(activities_history) <= max_history

\* With a cap of at least one the trim does what C4 and C5 say.
HistoryTrimmedWhenCapPositive ==
    max_history >= 1 => activities_history = LastN(ended, max_history)

\* The steps of C3: an activity's duration changes only from unset, in the
\* step that takes the activity out of the live set and records it as ended;
\* an activity outside the live set is never modified again.
DurationAssignedOnce ==
    \A id \in DOMAIN objs :
        /\ objs'[id].duration # objs[id].duration =>
              /\ objs[id].duration = NoDuration
              /\ id \in activities /\ id \notin activities'
              /\ ended' = Append(ended, id)
        /\ id \in Range(ended) => objs'[id] = objs[id]

\* The steps of C3: the locked section of an end_activity call whose id was
\* ended before returns without touching the store and without publishing.
SecondEndChangesNothing ==
    (/\ th[MainThread].pc = "end_lock"
     /\ th[MainThread].id \in Range(ended)
     /\ th' # th)
    => /\ UNCHANGED <<activities, objs, activities_history, stats, ended,
                      callLog, published>>
       /\ th'[MainThread] = Idle
       /\ ret' = Returned(EmptyId)

\* C3: the duration of an activity is unset in every state in which the
\* activity is in the live set and is assigned exactly once, by the
\* end_activity call that moves it to history; a second end_activity with the
\* same id, whatever its status and metadata, changes neither the recorded
\* duration, status or metadata nor history nor any counter, and notifies
\* nobody.
C3_SingleDurationAssignment ==
    /\ [](\A id \in activities : objs[id].duration = NoDuration)
    /\ [][DurationAssignedOnce]_vars
    /\ [][SecondEndChangesNothing]_vars

\* C3 witness: a second end_activity for an ended activity is inside its
\* locked section, with another status than the recorded one and with
\* metadata that would overwrite the recorded metadata.
C3_Witness ==
    LET c == th[MainThread] IN
    /\ c.pc = "end_lock"
    /\ c.id \in Range(ended)
    /\ objs[c.id].duration # NoDuration
    /\ c.status # objs[c.id].status
    /\ c.md # NoMeta
    /\ MetaUpdate(objs[c.id].metadata, c.md) # objs[c.id].metadata

\* The steps of C8: while the store is disabled and stays disabled, a call
\* made by the idle producer returns the empty id and changes nothing.
DisabledCallsAreNoOps ==
    (~enabled /\ ~enabled' /\ th[MainThread].pc = "idle")
    => /\ UNCHANGED <<storeVars, th, callLog, published>>
       /\ ret' = Returned(EmptyId)

\* The steps of C8: end_activity with the empty id returns at once.
EmptyEndChangesNothing ==
    \A s \in ActivityStatus, md \in EndMetas :
        EndCall(MainThread, EmptyId, s, md)
        => /\ UNCHANGED <<storeVars, th, callLog, published>>
           /\ ret' = Returned(EmptyId)

\* The steps of C8: the locked section of end_activity with an id that is
\* not in the live set returns without touching the store and without
\* publishing.
UnknownEndChangesNothing ==
    (/\ th[MainThread].pc = "end_lock"
     /\ th[MainThread].id \notin activities
     /\ th' # th)
    => /\ UNCHANGED <<storeVars, callLog, published>>
       /\ th'[MainThread] = Idle
       /\ ret' = Returned(EmptyId)

\* C8: start_activity returns the empty string and has no other effect when
\* the store is disabled; end_activity with the empty id or with an id that
\* is not in the live set returns normally, changes no part of the store
\* (live set, history, counters) and triggers no notification.
C8_DisabledEmptyUnknownNoOp ==
    /\ [](ret.out = "ok")
    /\ [][DisabledCallsAreNoOps]_vars
    /\ [][EmptyEndChangesNothing]_vars
    /\ [][UnknownEndChangesNothing]_vars

\* C8 witness: end_activity is in its locked section with an id nobody was
\* given while another activity is live, and before that a call returned the
\* empty id while the store was disabled.
C8_Witness ==
    /\ th[MainThread].pc = "end_lock"
    /\ th[MainThread].id = UnknownId
    /\ activities # {}
    /\ ~enabled

\* The events subscriber s was invoked with, in the order of its invocations.
DeliveredTo(s) ==
    LET calls == SelectSeq(callLog, LAMBDA e : e[1] = s)
    IN [k \in 1..Len(calls) |-> <<calls[k][2], calls[k][3]>>]

\* The events whose publication has reached subscriber s: all of them, less
\* the one being published when its loop has not passed s yet.
PublishedTo(s) ==
    LET c == th[MainThread] IN
    IF c.pc \in {"start_notify", "end_notify"} /\ c.i <= s
    THEN SubSeq(published, 1, Len(published) - 1)
    ELSE published

\* C9: whatever the registry, with a subscriber that always raises and one
\* that never raises registered in either order, the subscriber that never
\* raises is invoked once for every published event, in publish order; and
\* the invocations for one publication happen in registration order.
C9_SubscriberIsolation ==
    /\ \A s \in 1..Len(subscribers) :
          subscribers[s] = "ok" => DeliveredTo(s) = PublishedTo(s)
    /\ \A k, l \in 1..Len(callLog) :
          (k < l /\ callLog[k][2] = callLog[l][2] /\ callLog[k][3] = callLog[l][3])
          => callLog[k][1] < callLog[l][1]

\* C9 witness: the raising subscriber is registered before the other one and
\* both have been invoked for the start and the end of an activity.
C9_Witness ==
    /\ subscribers = <<"raise", "ok">>
    /\ th[MainThread].pc = "idle"
    /\ Len(published) >= 2
    /\ Len(DeliveredTo(2)) >= 2
    /\ Len(DeliveredTo(1)) >= 2

\* Every sample ingested so far, in ingestion order.
Ingested == [k \in 1..(nextSample - 1) |-> k]

\* C6 as claimed: system_metrics is never longer than max_history and is
\* always the suffix of the sequence of all samples ingested so far.
C6_MetricsWithinCapSuffix ==
    /\ Len(system_metrics) <= max_history
    /\ system_metrics = LastN(Ingested, Len(system_metrics))

\* What holds of system_metrics for every cap: it is a suffix of the samples
\* ingested so far, and for a cap of at least one it is the last max_history
\* of them.
MetricsTrimmedWhenCapPositive ==
    /\ system_metrics = LastN(Ingested, Len(system_metrics))
    /\ max_history >= 1 => system_metrics = LastN(Ingested, max_history)

\* C7 as claimed: while config.enabled is False, a start_activity or
\* end_activity call and the ingestion of a sample leave history,
\* system_metrics and every counter unchanged and invoke no activity
\* subscriber and no metrics subscriber.  (Calls and ingestions that began
\* before the flag was cleared are left out.)
C7_DisabledModeNoOp ==
    [][(/\ ~enabled
        /\ th[MainThread].pc = "idle"
        /\ \A k \in 1..Len(tasks) : tasks[k].pc # "notify")
       => UNCHANGED <<activities_history, system_metrics, stats, callLog,
                      metricsLog>>]_vars

\* What holds of the disabled mode: the calls of the producer are no-ops.
DisabledProducerNoOp ==
    [][(~enabled /\ th[MainThread].pc = "idle")
       => UNCHANGED <<activities, activities_history, stats, callLog>>]_vars

\* The steps of C10: a callback of the sampling loop, raising or not, leaves
\* the loop in its round (next callback, then the regular sleep), and a
\* callback of the producer, raising or not, leaves the store as the call
\* has set it.
CallbacksNeverDivert ==
    /\ \A k \in 1..Len(tasks) :
          tasks[k].pc = "notify" => tasks'[k].pc \in {"notify", "sleep"}
    /\ th[MainThread].pc \in {"start_notify", "end_notify"}
       /\ th'[MainThread] # th[MainThread]
       => /\ UNCHANGED storeVars
          /\ th'[MainThread].pc \in {th[MainThread].pc, "idle"}

\* C10: a failure inside a subscriber callback never reaches the producer:
\* every call returns normally, during and after the notification of a start
\* the activity is in the live set and counted, during and after the
\* notification of an end it has left the live set for history and is
\* counted, and the sampling loop goes on, even when every subscriber raises.
C10_FailuresNeverPropagate ==
    /\ [](/\ ret.out = "ok"
          /\ stats.started = Cardinality(Inserted)
          /\ stats.completed = Len(ended)
          /\ th[MainThread].pc = "start_notify" => th[MainThread].id \in activities
          /\ th[MainThread].pc = "end_notify" =>
                /\ th[MainThread].id \notin activities
                /\ ended[Len(ended)] = th[MainThread].id
                /\ objs[th[MainThread].id].duration # NoDuration)
    /\ [][CallbacksNeverDivert]_vars

\* C10 witness: every registered subscriber raises; an activity was started
\* and ended with both notifications made and the calls returned, and the
\* sampling loop has ingested a sample after a raising metrics callback.
C10_Witness ==
    /\ subscribers = <<"raise">>
    /\ metrics_subscribers = <<"raise">>
    /\ th[MainThread].pc = "idle"
    /\ ret.out = "ok"
    /\ Len(ended) >= 1
    /\ Len(callLog) >= 2
    /\ Len(metricsLog) >= 2
    /\ \E k \in 1..Len(tasks) : tasks[k].pc = "sleep"

\* C11 as claimed: whenever a subscriber is invoked for the end of an
\* activity, it has been invoked for the begin of that activity before.
C11_BeginBeforeEnd ==
    \A k \in 1..Len(callLog) :
        callLog[k][3] = "end" =>
            \E j \in 1..(k - 1) :
                /\ callLog[j][1] = callLog[k][1]
                /\ callLog[j][2] = callLog[k][2]
                /\ callLog[j][3] = "start"

\* What holds of the order of notifications: the end of an activity is
\* published only after its insertion into the live set, and a subscriber
\* is invoked at most once for the begin and once for the end of an id.
EndPublishedAfterInsert ==
    /\ \A k \in 1..Len(published) :
          published[k][2] = "end" => \E j \in 1..(k - 1) : published[j] = <<published[k][1], "start">>
    /\ \A k, l \in 1..Len(callLog) :
          (k < l /\ callLog[k][1] = callLog[l][1] /\ callLog[k][2] = callLog[l][2])
          => callLog[k][3] # callLog[l][3]

\* The place of message m in the sequence q, 0 when it is not there.
Pos(q, m) == IF \E i \in 1..Len(q) : q[i] = m
             THEN CHOOSE i \in 1..Len(q) : q[i] = m /\ \A j \in 1..(i - 1) : q[j] # m
             ELSE 0

\* Every websocket was attached before anything was published and every
\* client is still there.
AllAttachedFromTheStart ==
    /\ active_connections = Conns
    /\ \A c \in Conns : conn[c].alive /\ joined[c] = 0

\* Every broadcast task created so far has run to its end.
BroadcastsFinished == \A b \in 1..Len(bcasts) : bcasts[b].pc \in {"done", "crashed"}

\* C12 as claimed: with the connections attached from the start, no
\* connection receives the update with status completed of an activity
\* before the update with status started, and once the broadcast tasks of
\* the pair have finished every connection has received both.
C12_BothUpdatesInOrder ==
    AllAttachedFromTheStart =>
        \A c \in Conns, id \in DOMAIN objs :
            LET s == Pos(sent[c], <<"activity_update", id, "started">>)
                e == Pos(sent[c], <<"activity_update", id, "completed">>)
            IN /\ e > 0 => (s > 0 /\ s < e)
               /\ (BroadcastsFinished /\ id \in Range(ended) /\ th[MainThread].pc = "idle")
                  => (s > 0 /\ e > 0)

\* What holds of the pair: once the broadcast tasks have finished, every
\* connection attached from the start has received both updates.
BothUpdatesDelivered ==
    (AllAttachedFromTheStart /\ BroadcastsFinished /\ th[MainThread].pc = "idle") =>
        \A c \in Conns, id \in Range(ended) :
            /\ Pos(sent[c], <<"activity_update", id, "started">>) > 0
            /\ Pos(sent[c], <<"activity_update", id, "completed">>) > 0

\* What holds of the snapshot: the first message written to a websocket is
\* the initial_state snapshot and it is written once.
SnapshotFirstAndOnce ==
    \A c \in Conns :
        /\ conn[c].pc \in {"none", "accepting"} <=> sent[c] = <<>>
        /\ \A i \in 1..Len(sent[c]) : (sent[c][i] = InitialState) <=> (i = 1)

\* C13 as claimed: the first message on every accepted websocket is the one
\* initial_state snapshot, and once the broadcast tasks have finished every
\* event published after a websocket joined has been sent to it, as long as
\* it is in the active set and its client is there.
C13_SnapshotThenEveryEvent ==
    /\ SnapshotFirstAndOnce
    /\ BroadcastsFinished =>
          \A c \in active_connections :
              conn[c].alive =>
                  \A k \in (joined[c] + 1)..Len(bcasts) :
                      Pos(sent[c], bcasts[k].msg) > 0

\* C14 as claimed: once the broadcast tasks have finished, a websocket to
\* which a write failed during a broadcast is no longer in the active set,
\* and every other websocket of the active set that had joined before has
\* received the message of that broadcast.
C14_FailedWriteIsolated ==
    BroadcastsFinished =>
        \A b \in 1..Len(bcasts) :
            bcasts[b].disconnected # {} =>
                /\ bcasts[b].disconnected \cap active_connections = {}
                /\ \A d \in active_connections :
                      (conn[d].alive /\ joined[d] < b)
                      => Pos(sent[d], bcasts[b].msg) > 0

\* What holds of one broadcast on its own: a failed write does not stop the
\* loop, the next websocket in the order is written to in the next pass.
FailedWriteDoesNotStopLoop ==
    [][\A b \in 1..Len(bcasts) :
          (/\ bcasts[b].pc = "iterating"
           /\ bcasts[b].disconnected # {}
           /\ bcasts'[b] # bcasts[b]
           /\ active_connections = bcasts[b].start
           /\ bcasts[b].visited # bcasts[b].start)
          => /\ bcasts'[b].pc = "iterating"
             /\ bcasts'[b].visited = bcasts[b].visited
                    \cup {NextInOrder(bcasts[b].start \ bcasts[b].visited)}]_vars

\* C15 as claimed: in the state MonitoringServer.stop() leaves behind, the
\* set of held connections is empty.
C15_StopDrainsConnections ==
    [][stop_monitoring => active_connections' = {}]_vars

\* What holds of MonitoringServer.stop(): it clears the monitoring flag and
\* leaves the connections, their endpoints and the broadcast tasks alone.
StopLeavesConnectionsAlone ==
    [][stop_monitoring => (~is_monitoring' /\ UNCHANGED serverVars)]_vars

\* The sampling loops that can still append: the tasks that have not ended
\* and have no cancellation pending.
RunningLoops == {k \in 1..Len(tasks) : tasks[k].pc # "done" /\ ~tasks[k].cancel}

\* The steps of C16: a task with a cancellation pending ends when it is
\* resumed, without a sample and without a callback; and once the monitor is
\* stopped and every task has ended, nothing is appended and no metrics
\* subscriber is invoked.
StoppedLoopIsSilent ==
    /\ \A k \in 1..Len(tasks) :
          (tasks[k].cancel /\ tasks[k].pc \in {"new", "sleep", "backoff"}
           /\ tasks'[k] # tasks[k])
          => tasks'[k].pc = "done" /\ UNCHANGED <<system_metrics, metricsLog>>
    /\ (~is_monitoring /\ \A k \in 1..Len(tasks) : tasks[k].pc = "done")
       => UNCHANGED <<system_metrics, metricsLog>>

\* C16: after stop_monitoring every sampling task has ended or has its
\* cancellation pending, and once the cancellation has been processed no
\* sample is appended to system_metrics and no metrics subscriber is
\* invoked, until start_monitoring is called again.
C16_NoSampleAfterStop ==
    /\ [](~is_monitoring => RunningLoops = {})
    /\ [][StoppedLoopIsSilent]_vars

\* C16 witness: the loop has taken a sample and notified, the monitor was
\* stopped and the task has ended on its cancellation.
C16_Witness ==
    /\ ~is_monitoring
    /\ Len(tasks) >= 1
    /\ \A k \in 1..Len(tasks) : tasks[k].pc = "done" /\ tasks[k].cancel
    /\ Len(system_metrics) >= 1
    /\ Len(metricsLog) >= 1

\* C17 as claimed: a start_monitoring call made on the event loop (by
\* MonitoringServer.start) leaves a running sampling loop exactly when
\* resource monitoring is enabled, and at no time can more than one
\* sampling loop append.
C17_OneLoopWhenEnabled ==
    /\ [](Cardinality(RunningLoops) <= 1)
    /\ [][start_monitoring =>
             (enable_resource_monitoring <=> RunningLoops' # {})]_vars

\* What holds of the sampling loops: at most one can append at a time, and
\* none runs with resource monitoring off.
AtMostOneLoop ==
    /\ Cardinality(RunningLoops) <= 1
    /\ ~enable_resource_monitoring => tasks = <<>>

\* The calls applied for an entity that pass the test f, counted, and the
\* sum of what g takes from them.
RECURSIVE SeqSum(_)
SeqSum(q) == IF q = <<>> THEN 0 ELSE q[1] + SeqSum(Tail(q))
SumOver(q, name, f(_), g(_)) ==
    SeqSum([i \in 1..Len(q) |->
               IF q[i][1] = name /\ f(q[i][2]) THEN g(q[i][2]) ELSE 0])

CountedSample(u) == u.rt # NoSample /\ (u.completed \/ u.failed)
One(u) == 1
ResponseTime(u) == u.rt

\* C18 as claimed: between calls, average_response_time of every entity is
\* the arithmetic mean of the response times that came in a call that also
\* carried a completed or failed flag (0 when there was none).
C18_AverageIsMean ==
    lock = "free" =>
        \A name \in DOMAIN agent_metrics :
            LET avg == agent_metrics[name].average_response_time
                n == SumOver(applied, name, CountedSample, One)
                total == SumOver(applied, name, CountedSample, ResponseTime)
            IN IF n = 0 THEN avg[1] = 0 ELSE avg[1] * n = total * avg[2]

\* What holds of the average: when every call so far carried exactly one of
\* the two flags together with a response time, it is the mean of the
\* response times.
OneFlagAndSample(u) == u.rt # NoSample /\ (u.completed # u.failed)
Always(u) == TRUE
MeanWhenEveryCallCountsOne ==
    lock = "free" =>
        \A name \in DOMAIN agent_metrics :
            LET avg == agent_metrics[name].average_response_time
                n == SumOver(applied, name, OneFlagAndSample, One)
                total == SumOver(applied, name, OneFlagAndSample, ResponseTime)
            IN (n > 0 /\ n = SumOver(applied, name, Always, One))
               => avg[1] * n = total * avg[2]

\* The steps of C20: with the store or the per-entity metrics switched off,
\* a thread that is outside update_agent_metrics does not enter it and the
\* mapping stays as it is.
DisabledUpdateIsNoOp ==
    (UpdateDisabled /\ ath[MainThread].pc = "idle")
    => UNCHANGED <<agent_metrics, ath, applied>>

\* C20: update_agent_metrics is a no-op when config.enable_agent_metrics is
\* False or the store is disabled: agent_metrics is unchanged, and no record
\* is created for an entity not seen before.
C20_DisabledUpdateNoOp ==
    /\ [](~enable_agent_metrics => agent_metrics = <<>>)
    /\ [][DisabledUpdateIsNoOp]_vars

\* C20 witness: the store was switched off after a call had created the
\* entity's record, and no call is under way.
C20_Witness ==
    /\ ~enabled
    /\ enable_agent_metrics
    /\ ath[MainThread].pc = "idle"
    /\ Len(applied) = 1
    /\ DOMAIN agent_metrics = Entities

\* What holds of the counters: between calls, tasks_completed, tasks_failed,
\* every tool counter and token_usage are the number, respectively the sum,
\* of the calls that carried the key.
IsCompleted(u) == u.completed
IsFailed(u) == u.failed
UsedTool(u) == u.tool # ""
Tokens(u) == u.tokens
CountersMatchCalls ==
    lock = "free" =>
        \A name \in DOMAIN agent_metrics :
            LET m == agent_metrics[name] IN
            /\ m.tasks_completed = SumOver(applied, name, IsCompleted, One)
            /\ m.tasks_failed = SumOver(applied, name, IsFailed, One)
            /\ \A tool \in Tools : m.tool_usage[tool] = SumOver(applied, name, UsedTool, One)
            /\ m.token_usage = SumOver(applied, name, Always, Tokens)

\* C19 as claimed: the counters match the calls, and whatever a caller of
\* get_agent_metrics reads from the returned objects is the value the
\* entity's metrics had between two calls, never a call applied in part.
C19_AtomicPerCall ==
    /\ CountersMatchCalls
    /\ \A o \in observed :
          \E m \in commits : o.name \in DOMAIN m /\ m[o.name] = o.value

\* The children list of an activity changes only by the locked section of
\* add_child_activity appending the child to a parent, both in the live set.
ChildAppendedOnlyWhenBothLive ==
    [][\A id \in DOMAIN objs :
          objs'[id].children # objs[id].children =>
             \E t \in Threads :
                /\ th[t].pc = "child_lock"
                /\ th[t].id = id
                /\ id \in activities
                /\ th[t].i \in activities
                /\ objs'[id].children = Append(objs[id].children, th[t].i)]_vars

\* A call that finds one of its ids outside the live set returns normally
\* and leaves the store as it was.
RejectedChildChangesNothing ==
    [][\A t \in Threads :
          (/\ th[t].pc = "child_lock"
           /\ th'[t] # th[t]
           /\ ~(th[t].id \in activities /\ th[t].i \in activities))
          => /\ UNCHANGED storeVars
             /\ th'[t] = Idle
             /\ ret' = Returned(EmptyId)]_vars

\* With the store disabled no call gets past its first check.
DisabledChildChangesNothing ==
    [][~enabled =>
          /\ \A t \in Threads : th[t].pc = "idle" => th'[t] = th[t]
          /\ (\A t \in Threads : th[t].pc = "idle") => UNCHANGED storeVars]_vars

\* An activity moved to history keeps the children it had.
CompletedNeverGainsChild ==
    [][\A id \in Range(ended) : objs'[id].children = objs[id].children]_vars

\* C21: add_child_activity appends the child to the parent's children only
\* when both ids are in the live set at the time of the call; with an
\* unknown id, an id already in history or the store disabled it returns
\* normally and changes nothing, so a completed activity never gains a child.
C21_ChildOnlyAmongLive ==
    /\ ChildAppendedOnlyWhenBothLive
    /\ RejectedChildChangesNothing
    /\ DisabledChildChangesNothing
    /\ CompletedNeverGainsChild

\* A parent that gained a child while live has been moved to history and is
\* named as the parent again.
C21_Witness ==
    \E t \in Threads :
       /\ th[t].pc = "child_lock"
       /\ th[t].id \in Range(ended)
       /\ objs[th[t].id].children # <<>>

\* C22: the values returned by the snapshot accessors are copies: no later
\* store operation changes an Activity returned by get_active_activities or
\* an AgentMetrics returned by get_agent_metrics.
C22_AccessorsReturnCopies ==
    [][/\ \A id \in held : objs'[id] = objs[id]
       /\ \A name \in views : agent_metrics'[name] = agent_metrics[name]]_vars

\* The Activity objects of a list returned by get_recent_activities are in
\* history and do not change any more.
RecentEntriesStayAsReturned ==
    [][\A id \in Range(recent.result) : objs'[id] = objs[id]]_vars

\* C28: get_recent_activities(limit) returns the last min(limit, len(history))
\* entries of history in order, for every limit >= 0; limit = 0 yields the
\* empty list.
C28_RecentIsNewestLimit ==
    [][recent' # recent =>
          /\ recent'.result = LastN(activities_history, recent'.limit)
          /\ Len(recent'.result) =
                IF recent'.limit < Len(activities_history)
                THEN recent'.limit ELSE Len(activities_history)]_vars

\* For a limit of at least one the result is the newest limit entries.
RecentIsNewestForPositiveLimit ==
    [][(recent' # recent /\ recent'.limit >= 1) =>
          recent'.result = LastN(activities_history, recent'.limit)]_vars

\* The live set, the history and the counters change only in a step that is
\* the locked section of start_activity or end_activity of one thread.
MutationsUnderLock ==
    [][(activities' # activities \/ activities_history' # activities_history
           \/ stats' # stats)
       => \E t \in Threads :
             /\ th[t].pc \in {"start_lock", "end_lock"}
             /\ th'[t] # th[t]
             /\ \A u \in Threads \ {t} : th'[u] = th[u]]_vars

\* No callback is invoked in a step that is a locked section: of a producer
\* or of the sampling loop appending and trimming its sample.
NoCallbackUnderLock ==
    [][((\E t \in Threads :
            th[t].pc \in {"start_lock", "end_lock", "child_lock"} /\ th'[t] # th[t])
        \/ system_metrics' # system_metrics \/ nextSample' # nextSample)
       => (callLog' = callLog /\ metricsLog' = metricsLog)]_vars

\* A callback is invoked only by a thread or task past its locked section,
\* in a step that leaves everything the lock protects as it is.
CallbacksAfterRelease ==
    [][/\ callLog' # callLog =>
             /\ \E t \in Threads :
                   th[t].pc \in {"start_notify", "end_notify"} /\ th'[t] # th[t]
             /\ UNCHANGED <<storeVars, system_metrics>>
       /\ metricsLog' # metricsLog =>
             /\ \E k \in 1..Len(tasks) : tasks[k].pc = "notify"
             /\ UNCHANGED <<storeVars, system_metrics>>]_vars

\* C23: every mutation of the live set, the history and the counters is made
\* in a locked section, and no activity or metrics callback is invoked while
\* the caller holds the lock: start_activity, end_activity and the sampling
\* loop leave the locked section before they notify.
C23_NotifyOutsideLock ==
    /\ MutationsUnderLock
    /\ NoCallbackUnderLock
    /\ CallbacksAfterRelease

\* A callback of one thread and a metrics callback are under way while the
\* other thread stands in front of the lock.
C23_Witness ==
    /\ \E t, u \in Threads :
          /\ th[t].pc \in {"start_notify", "end_notify"}
          /\ th[u].pc \in {"start_lock", "end_lock"}
    /\ \E k \in 1..Len(tasks) : tasks[k].pc = "notify"
    /\ callLog # <<>>

\* The locked section of an end_activity that finds its id in the live set.
EndMovesAndCounts ==
    [][LET c == th[MainThread] IN
       (c.pc = "end_lock" /\ c.id \in activities /\ th' # th) =>
          LET a == objs[c.id]
              b == objs'[c.id]
              n == Len(activities_history')
          IN
          /\ b.status = c.status
          /\ b.duration \in Durations
          /\ b.metadata = MetaUpdate(a.metadata, c.md)
          /\ b.children = a.children
          /\ activities' = activities \ {c.id}
          /\ n >= 1
          /\ activities_history'[n] = c.id
          /\ stats'.started = stats.started
          /\ stats'.completed = stats.completed + (IF c.status = "completed" THEN 1 ELSE 0)
          /\ stats'.failed = stats.failed + (IF c.status = "failed" THEN 1 ELSE 0)
          /\ stats'.total_duration =
                stats.total_duration + (IF c.status = "completed" THEN b.duration ELSE 0)
          /\ published' = Append(published, <<c.id, "end">>)]_vars

\* The callbacks invoked for the end of activity id.
EndCallbacks(id) ==
    {i \in 1..Len(callLog) : callLog[i][2] = id /\ callLog[i][3] = "end"}

\* Each ended activity is published once, and the subscriber is invoked
\* once for it, with the activity as end_activity has left it.
OneEndNotification ==
    [](\A id \in Range(ended) :
          /\ Cardinality({i \in 1..Len(published) : published[i] = <<id, "end">>}) = 1
          /\ Cardinality(EndCallbacks(id)) <= 1
          /\ th[MainThread].pc = "idle" => Cardinality(EndCallbacks(id)) = 1
          /\ \A i \in EndCallbacks(id) : callLog[i][4] = objs[id].status)

\* C24: a successful end_activity merges the metadata into the activity,
\* appends it at the tail of history, counts it by the supplied status
\* (completed: completed + 1 and total_duration + duration; failed: failed
\* + 1; cancelled: neither counter) and publishes exactly one notification
\* carrying the finalized activity.
C24_EndMergesCountsNotifiesOnce ==
    /\ EndMovesAndCounts
    /\ OneEndNotification

\* A cancelled activity carrying the metadata of its end is in history, its
\* notification made, no counter moved.
C24_Witness ==
    /\ th[MainThread].pc = "idle"
    /\ Len(ended) = 1
    /\ objs[ended[1]].status = "cancelled"
    /\ objs[ended[1]].metadata = {<<"k", 2>>}
    /\ Cardinality(EndCallbacks(ended[1])) = 1
    /\ stats.completed = 0
    /\ stats.failed = 0
    /\ activities_history # <<>>

\* C25: every entry of history has a terminal status (completed, failed or
\* cancelled): no sequence of public operations, end_activity with status
\* started included, puts an activity with status started into history.
C25_HistoryIsTerminal ==
    \A i \in 1..Len(activities_history) :
       objs[activities_history[i]].status \in {"completed", "failed", "cancelled"}

\* Every entry of history has the status its end_activity call supplied and
\* a duration.
HistoryHasSuppliedStatus ==
    /\ [](\A i \in 1..Len(activities_history) :
            objs[activities_history[i]].duration # NoDuration)
    /\ [][LET c == th[MainThread] IN
           (c.pc = "end_lock" /\ c.id \in activities /\ th' # th) =>
              objs'[c.id].status = c.status]_vars

\* C26: once an activity is in history its status, duration, metadata and
\* children stay as they are: no later end_activity for its id, no
\* add_child_activity naming it as parent or as child, no start_activity
\* and no update_agent_metrics changes them.
C26_FrozenInHistory ==
    [][\A id \in Range(ended) :
          /\ objs'[id].status = objs[id].status
          /\ objs'[id].duration = objs[id].duration
          /\ objs'[id].metadata = objs[id].metadata
          /\ objs'[id].children = objs[id].children]_vars

\* An activity in history that had gained a child is named by
\* add_child_activity again, after an update_agent_metrics call.
C26_Witness ==
    LET c == th[MainThread] IN
    /\ c.pc = "child_lock"
    /\ c.id \in Range(ended) \/ c.i \in Range(ended)
    /\ \E id \in Range(ended) : objs[id].children # <<>>
    /\ DOMAIN agent_metrics # {}

\* The flags counted for an entity by the calls applied so far.
FlagsApplied(name) ==
    SumOver(applied, name, IsCompleted, One) + SumOver(applied, name, IsFailed, One)

\* The step that applies the response time of a call: n is the number of
\* flags of the earlier calls plus those of this call.
RecurrenceUsesNewCount ==
    [][LET c == ath[MainThread] IN
       (c.pc = "upd_rest" /\ ath' # ath) =>
          LET n == FlagsApplied(c.name) + (IF c.u.completed THEN 1 ELSE 0)
                                        + (IF c.u.failed THEN 1 ELSE 0)
              old == agent_metrics[c.name].average_response_time
              new == agent_metrics'[c.name].average_response_time
          IN IF c.u.rt # NoSample /\ n > 0
             THEN new[1] * old[2] * n = (old[1] * (n - 1) + c.u.rt * old[2]) * new[2]
             ELSE new = old]_vars

\* While no flag has been counted for an entity its average is 0.
AverageZeroWithoutTasks ==
    [](\A name \in DOMAIN agent_metrics :
          agent_metrics[name].tasks_completed + agent_metrics[name].tasks_failed = 0
          => agent_metrics[name].average_response_time[1] = 0)

\* C27: in a call carrying a flag and a response time, n of the recurrence
\* new_avg = (old_avg * (n - 1) + sample) / n is the number of completed and
\* failed tasks after that call's increment; a response time arriving while
\* that number is 0 is discarded and leaves the average at 0.
C27_CountAfterIncrement ==
    /\ RecurrenceUsesNewCount
    /\ AverageZeroWithoutTasks

\* A first call brought a response time and no flag and was discarded; the
\* second brought a flag and the response time 3, which is the average now.
C27_Witness ==
    /\ lock = "free"
    /\ Len(applied) = 2
    /\ applied[1][2].rt = 1
    /\ ~applied[1][2].completed /\ ~applied[1][2].failed
    /\ applied[2][2].rt = 3
    /\ applied[2][2].completed /\ ~applied[2][2].failed
    /\ agent_metrics["agent"].average_response_time = <<3, 1>>

\* A sampling task ends only with a cancellation pending or with the
\* monitor stopped: never because the probe raised.
LoopEndsOnlyWhenStopped ==
    [][\A k \in 1..Len(tasks) :
          (tasks[k].pc # "done" /\ tasks'[k].pc = "done")
          => (tasks[k].cancel \/ ~is_monitoring)]_vars

\* A loop in its back-off sleep samples again (or is stopped), as long as
\* the sample numbers last.
BackoffLeadsToSample ==
    \A k \in 1..MaxTasks :
       (k <= Len(tasks) /\ tasks[k].pc = "backoff" /\ nextSample <= MaxSamples)
       ~> (k <= Len(tasks) /\ (tasks[k].pc # "backoff" \/ nextSample > MaxSamples))

\* C29: an exception of the resource probe never ends the sampling loop:
\* the loop backs off and samples again, and ends only on cancellation or
\* stop_monitoring; under a fair event loop a loop that backed off
\* eventually takes its next sample.
C29_ProbeFailureNeverEndsLoop ==
    /\ LoopEndsOnlyWhenStopped
    /\ BackoffLeadsToSample

\* The probe raised after a sample was taken; the loop is in its back-off
\* sleep with the monitor on and no cancellation pending.
C29_Witness ==
    /\ is_monitoring
    /\ Len(system_metrics) >= 1
    /\ \E k \in 1..Len(tasks) : tasks[k].pc = "backoff" /\ ~tasks[k].cancel

\* A task resumed with its cancellation pending ends there, with no sample
\* and no callback; a round of callbacks under way is finished first.
CancelEndsAtSuspension ==
    [][\A k \in 1..Len(tasks) :
          /\ (tasks[k].cancel /\ tasks[k].pc \in {"new", "sleep", "backoff"}
               /\ tasks'[k] # tasks[k])
             => /\ tasks'[k].pc = "done"
                /\ UNCHANGED <<system_metrics, nextSample, metricsLog>>
          /\ (tasks[k].pc = "notify"
               /\ (tasks'[k].pc # "notify" \/ tasks'[k].j # tasks[k].j))
             => /\ tasks'[k].pc \in {"notify", "sleep"}
                /\ Len(metricsLog') = Len(metricsLog) + 1]_vars

\* Every sample taken so far is in system_metrics as appended and trimmed,
\* and each subscriber has been invoked with it or is about to be, by the
\* task that took it.
SamplesAreWhole ==
    [](/\ system_metrics = Trim(Ingested, max_history)
       /\ \A i \in 1..Len(metricsLog) : metricsLog[i][2] < nextSample
       /\ \A n \in 1..(nextSample - 1), j \in 1..Len(metrics_subscribers) :
             \/ \E i \in 1..Len(metricsLog) : metricsLog[i] = <<j, n>>
             \/ \E k \in 1..Len(tasks) :
                   tasks[k].pc = "notify" /\ tasks[k].sample = n /\ tasks[k].j <= j)

\* A cancelled task ends.
CancelledTaskEnds ==
    \A k \in 1..MaxTasks :
       (k <= Len(tasks) /\ tasks[k].cancel) ~> (k <= Len(tasks) /\ tasks[k].pc = "done")

\* C30: a cancelled sampling task ends at its next suspension point (the
\* sleep between samples or the back-off sleep) without leaving a partial
\* sample: each sample is appended, trimmed and notified to the metrics
\* subscribers in full or not appended at all, and the task eventually ends.
C30_CancelLeavesNoPartialSample ==
    /\ CancelEndsAtSuspension
    /\ SamplesAreWhole
    /\ CancelledTaskEnds

\* The monitor was stopped while a task was notifying and started again:
\* the cancelled task finished its round and ended, its sample delivered.
C30_Witness ==
    /\ is_monitoring
    /\ Len(tasks) = 2
    /\ tasks[1].pc = "done" /\ tasks[1].cancel
    /\ Len(metricsLog) >= 1
    /\ nextSample > 1

\* C31: each use of a context manager of MonitoringHooks calls start_activity
\* once on entry and end_activity once on exit; the activity is ended with
\* status completed when the block returned and with status failed
\* whenever the block raised, and what the block raised reaches the caller.
C31_HookEndsOnceByOutcome ==
    hook.pc = "left" =>
        /\ hook.starts = 1
        /\ hook.ends = 1
        /\ hook.outcome = "return" => (hook.status = "completed" /\ hook.raised = "none")
        /\ hook.outcome # "return" =>
              (hook.status = "failed" /\ hook.raised = hook.outcome)

\* What holds of the hooks: one start and one end per use, the exception
\* raised again, completed after a return and failed after an Exception.
HookEndsOnceAndReraises ==
    hook.pc = "left" =>
        /\ hook.starts = 1
        /\ hook.ends = 1
        /\ hook.outcome = "return" => (hook.status = "completed" /\ hook.raised = "none")
        /\ hook.outcome # "return" => hook.raised = hook.outcome
        /\ hook.outcome = "Exception" => hook.status = "failed"

\* C32: for an id returned by create_session and not cleaned up, the
\* detail, recording, logs and stop requests succeed (the session is found;
\* stop sets its status to stopped); for an id never created they answer
\* 404 and leave the session table as it was.
C32_SessionOpsByMembership ==
    [][vret'.n # vret.n =>
          LET id == vret'.id IN
          /\ id \in DOMAIN sessions =>
                /\ vret'.code = 200
                /\ DOMAIN sessions' = DOMAIN sessions
                /\ \A o \in DOMAIN sessions \ {id} : sessions'[o] = sessions[o]
                /\ sessions'[id].status =
                      IF vret'.op = "stop" THEN "stopped" ELSE sessions[id].status
          /\ id \notin DOMAIN sessions =>
                /\ vret'.code = 404
                /\ sessions' = sessions]_vars

\* A stop request for an id never created was answered 404 while a session
\* stopped before is in the table.
C32_Witness ==
    /\ vret.op = "stop"
    /\ vret.code = 404
    /\ vret.id >= nextSession
    /\ \E id \in DOMAIN sessions : sessions[id].status = "stopped"

\* C40: the status of a session only moves forward along starting, running,
\* stopped: once stop_session has set it to stopped no later step, the
\* delayed _start_visual_session included, sets it back to running.
C40_StoppedStaysStopped ==
    [][\A id \in DOMAIN sessions \cap DOMAIN sessions' :
          /\ sessions[id].status = "stopped" => sessions'[id].status = "stopped"
          /\ sessions[id].status = "running" => sessions'[id].status # "starting"]_vars

\* What holds of the status: a session stopped after its background task
\* has run stays stopped, and no session goes back to starting.
StoppedStaysStoppedAfterStart ==
    [][\A id \in DOMAIN sessions \cap DOMAIN sessions' :
          /\ (sessions[id].status = "stopped" /\ starters[id] = "done")
                => sessions'[id].status = "stopped"
          /\ sessions'[id].status = "starting" => sessions[id].status = "starting"]_vars

\* C33: under any interleaving of start_activity and end_activity the
\* counters lose no update and agree with the live set: in what
\* get_statistics returns, activities_started is active_activities plus the
\* number of successful end_activity calls so far, and activities_completed
\* + activities_failed is at most activities_started - active_activities.
C33_CountersMatchLiveSet ==
    LET s == get_statistics IN
    /\ s.activities_started = s.active_activities + Len(ended)
    /\ s.activities_completed + s.activities_failed
          <= s.activities_started - s.active_activities

\* One thread is about to insert and the other about to end, after an
\* activity was ended with a status that moves no counter.
C33_Witness ==
    /\ \E t, u \in Threads : th[t].pc = "start_lock" /\ th[u].pc = "end_lock"
    /\ Len(ended) >= 1
    /\ stats.completed + stats.failed < Len(ended)

\* C34: an activity whose start_activity returned a non-empty id and whose
\* end_activity has been called with that id has left the live set,
\* whatever enable_monitoring(True / False) calls came in between.
C34_EndedActivityLeavesLiveSet ==
    (hook.pc = "left" /\ hook.id # EmptyId) => hook.id \notin activities

\* What holds of the end: it takes the activity out of the live set when
\* the store is enabled at the time of the call.
EndedWhileEnabledLeavesLiveSet ==
    [][(hook.pc = "in" /\ hook'.pc = "left" /\ hook.id # EmptyId /\ enabled)
       => hook.id \notin activities']_vars

\* C35: whenever the monitor is marked as monitoring and resource
\* monitoring is enabled a sampling task exists; a start_monitoring call
\* whose task creation fails does not leave the monitor marked as monitoring.
C35_MonitoringMeansTaskExists ==
    /\ [](is_monitoring /\ enable_resource_monitoring => RunningLoops # {})
    /\ [][(ret'.out = "raised" /\ ret.out # "raised") => ~is_monitoring']_vars

\* What holds of the flag: a start_monitoring call that finds the flag clear
\* on a running event loop leaves a sampling task that can append.
StartOnLoopLeavesTask ==
    [][(start_monitoring /\ ~is_monitoring /\ enable_resource_monitoring
           /\ ret'.out = "ok")
       => RunningLoops' # {}]_vars

\* A step in which a broadcast task ends on the KeyError of
\* "self.active_connections.remove(connection)": it reaches its second loop
\* holding a failed websocket that is no longer in the set.
BroadcastKeyError(b) ==
    /\ bcasts[b].pc = "iterating"
    /\ bcasts'[b].pc = "crashed"
    /\ Cardinality(active_connections) = Cardinality(bcasts[b].start)
    /\ ~(bcasts[b].disconnected \subseteq active_connections)

\* C36 as claimed: the connection manager never tries to remove a websocket
\* that is not in active_connections: no endpoint ends on the KeyError of
\* disconnect, and no broadcast ends on the KeyError of its removal loop.
C36_NoRemovalOfAbsentConnection ==
    /\ [](\A c \in Conns : conn[c].pc # "crashed")
    /\ [][\A b \in 1..Len(bcasts) : ~BroadcastKeyError(b)]_vars

\* The endpoint half of C36 on its own.
EndpointNeverHitsKeyError == \A c \in Conns : conn[c].pc # "crashed"

\* The broadcast half of C36 on its own.
BroadcastNeverHitsKeyError ==
    [][\A b \in 1..Len(bcasts) : ~BroadcastKeyError(b)]_vars

\* What holds of disconnect: a websocket whose endpoint is the only one to
\* remove it (no broadcast has recorded a failed write to it) is removed
\* without an error.
SoleRemoverSucceeds ==
    [][\A c \in Conns :
          (/\ conn[c].pc = "open"
           /\ conn'[c].pc \in {"closed", "crashed"}
           /\ \A b \in 1..Len(bcasts) : c \notin bcasts[b].disconnected)
          => (conn'[c].pc = "closed" /\ c \notin active_connections')]_vars

\* A step in which a broadcast task ends on the RuntimeError of the set
\* iterator: it is resumed when active_connections has another size than
\* when its loop began.
BroadcastAborted(b) ==
    /\ bcasts[b].pc = "iterating"
    /\ bcasts'[b].pc = "crashed"
    /\ Cardinality(active_connections) # Cardinality(bcasts[b].start)

\* C37 as claimed: a websocket added to or removed from active_connections
\* while a broadcast is suspended does not abort the broadcast, and once
\* the broadcasts have ended every websocket that was in the set when a
\* broadcast began and is still connected has received its message.
C37_BroadcastSurvivesSetChange ==
    /\ [][\A b \in 1..Len(bcasts) : ~BroadcastAborted(b)]_vars
    /\ [](BroadcastsFinished =>
             \A b \in 1..Len(bcasts) :
                 \A c \in bcasts[b].start \cap active_connections :
                     conn[c].alive => Pos(sent[c], bcasts[b].msg) > 0)

\* The first half of C37 on its own.
SetChangeNeverAborts ==
    [][\A b \in 1..Len(bcasts) : ~BroadcastAborted(b)]_vars

\* What holds of a broadcast that finds the set as it was at each of its
\* resumptions: it goes on to the next websocket or completes, and when it
\* completes every websocket of the set that accepts writes has the message.
UndisturbedBroadcastDelivers ==
    [][\A b \in 1..Len(bcasts) :
          (/\ bcasts[b].pc = "iterating"
           /\ active_connections = bcasts[b].start
           /\ bcasts'[b] # bcasts[b])
          => /\ bcasts'[b].pc \in {"iterating", "done"}
             /\ bcasts'[b].pc = "done" =>
                   \A c \in bcasts[b].start \ bcasts[b].disconnected :
                       Pos(sent'[c], bcasts[b].msg) > 0]_vars

\* Thread t runs a callback for the begin of its activity in this step.
BeginCallback(t) ==
    /\ th[t].pc = "start_notify"
    /\ Len(callLog') = Len(callLog) + 1

\* C38 as claimed: the notification published by start_activity carries the
\* status "started" and no duration, whatever a concurrent end_activity for
\* the same id does: every callback invoked for a begin observes the
\* activity as started, and so does the activity_update serialized from it.
C38_BeginNotificationCarriesStarted ==
    /\ [](\A k \in 1..Len(callLog) :
             callLog[k][3] = "start" => callLog[k][4] = "started")
    /\ [][\A t \in Threads :
              BeginCallback(t) =>
                  /\ objs[th[t].id].duration = NoDuration
                  /\ ActivityUpdate(th[t].id)[3] = "started"]_vars

\* What holds of the begin notification: the callback sees something else
\* than "started" only when the activity has left the live set before the
\* callback ran, and then it sees the status and the duration end_activity
\* has set.
BeginSeesStartedWhileLive ==
    [][\A t \in Threads :
          BeginCallback(t) =>
              IF th[t].id \in activities
              THEN /\ objs[th[t].id].status = "started"
                   /\ objs[th[t].id].duration = NoDuration
              ELSE /\ objs[th[t].id].status # "started"
                   /\ objs[th[t].id].duration # NoDuration]_vars

\* The ids a finished snapshot lists as ended and as active.
SnapEnded == Range(snap.activities)
SnapActive == snap.active_activities

\* C39 as claimed: the initial_state snapshot is a consistent view while
\* other threads end activities during _send_initial_data: no id is in both
\* of its lists, and every activity that existed from the beginning of the
\* call to its end is in at least one of them.
C39_SnapshotIsConsistent ==
    snap.pc = "sent" =>
        /\ SnapEnded \cap SnapActive = {}
        /\ snap.known \subseteq SnapEnded \cup SnapActive

\* What holds of the snapshot: no id is in both lists, and an activity that
\* existed throughout and is in neither list was live when the history was
\* read and had ended when the live set was read.
SnapshotListsDisjoint ==
    /\ snap.pc = "sent" => SnapEnded \cap SnapActive = {}
    /\ snap.pc = "sent" =>
          \A id \in snap.known \ (SnapEnded \cup SnapActive) :
              id \in Range(activities_history) \/ id \notin Existing
====
